---- MODULE Spec2Model ----
(***************************************************************************)
(* Pattern generation of code/experiment1_connectedness.py: DotPattern     *)
(* (dot placement, connecting lines, free lines) and the family loop of    *)
(* generate_all_patterns that builds the 0-, 1- and 2-connection patterns  *)
(* of one dot layout.  Every call of the random module is a choice from a  *)
(* small sample of the values the call can return.                         *)
(*                                                                         *)
(* Coordinates are the integers the code works with.  The code compares    *)
(* math.sqrt of an integer with an integer bound; sqrt is monotone and     *)
(* exact on perfect squares, so the model compares the squares.  The       *)
(* quotients t and u of _lines_intersect are quotients of integers far     *)
(* below 2^53, so their comparisons with 0 and 1 are decided by the        *)
(* integers.                                                               *)
(***************************************************************************)
EXTENDS Integers, Sequences, FiniteSets, TLC

\* ------------------------------------------------------------------------
\* Configuration (experiment1_connectedness.py, lines 29-51)
\* ------------------------------------------------------------------------
PATTERN_WIDTH == 280
PATTERN_HEIGHT == 360
DOT_DIAMETER == 12
MIN_DOT_DISTANCE == 42
MIN_DOT_BOUNDARY_DISTANCE == 20
MIN_LINE_LENGTH == 30
MAX_LINE_LENGTH == 60
MIN_LINE_DOT_DISTANCE == 12
NUM_LINES == 4
CONNECTEDNESS_LEVELS == <<0, 1, 2>>

NUM_BLOCKS == 5

\* bounds of run_experiment: TRIALS_PER_HALF_BLOCK is 168 and
\* NUM_PRACTICE_TRIALS is 30 in the code
TRIALS_PER_HALF_BLOCK == 3
NUM_PRACTICE_TRIALS == 2

\* the values the code gives to the three settings the model scales down
CodeTestDotNumbers == <<9, 10, 11, 12, 13, 14, 15>>
CodePatternsPerCondition == 8
CodeTrialsPerHalfBlock == 168

\* Families per dot number: 8 in the code.
PATTERNS_PER_CONDITION == 1

\* Attempt ceilings: 10 family attempts, 10000 draws per dot, 1000 rotations
\* per connection and 2000 draws per free line in the code.
max_retries == 2
DotMaxAttempts == 2
ConnMaxAttempts == 3
FreeMaxAttempts == 2
\* the longest stream of random results a recorded run of generate() uses
MaxStream == 6

\* ------------------------------------------------------------------------
\* The sampled values of the random draws
\* ------------------------------------------------------------------------
\* x and y of a dot candidate (130 and 170 lie outside the boundary-adjusted
\* rectangle: random.randint never returns them for the code's arguments)
DotXs == {-100, -50, 0, 36, 50, 130}
DotYs == {150, 170}
\* start point, direction and length of a free-line candidate
FreeXs == {39}
FreeYs == {130}
\* a direction is (cos, sin) of the angle in thousandths
Angles == {[c |-> 0, s |-> 1000]}
Lengths == {40, 50}

\* random.randint(a, b): an integer of [a, b], here one of the sample S
randint(a, b, S) == {v \in S : a <= v /\ v <= b}

\* ------------------------------------------------------------------------
\* Helpers
\* ------------------------------------------------------------------------
Abs(n) == IF n < 0 THEN -n ELSE n

\* Python int() of the quotient n / d (d > 0): truncation toward zero
TruncDiv(n, d) == IF n >= 0 THEN n \div d ELSE -((-n) \div d)

Range(s) == {s[i] : i \in 1..Len(s)}

\* list.remove(v): drops the first occurrence of v
ListRemove(s, v) ==
    LET i == CHOOSE k \in 1..Len(s) : s[k] = v /\ \A j \in 1..(k - 1) : s[j] # v
    IN  SubSeq(s, 1, i - 1) \o SubSeq(s, i + 1, Len(s))

\* the permutations random.shuffle can leave in a list of 0..n-1
Permutations0(n) ==
    {p \in [1..n -> 0..(n - 1)] : \A i, j \in 1..n : i # j => p[i] # p[j]}

Dist2(p, q) == (p[1] - q[1]) * (p[1] - q[1]) + (p[2] - q[2]) * (p[2] - q[2])

\* ------------------------------------------------------------------------
\* Geometry kernel
\* ------------------------------------------------------------------------
\* lines_intersect that counts a crossing at the start of the first segment
\* (0 <= t < 1)
lines_intersect_half_open(line1, line2) ==
    LET x1 == line1[1][1]
        y1 == line1[1][2]
        x2 == line1[2][1]
        y2 == line1[2][2]
        x3 == line2[1][1]
        y3 == line2[1][2]
        x4 == line2[2][1]
        y4 == line2[2][2]
        denom == (x1 - x2) * (y3 - y4) - (y1 - y2) * (x3 - x4)
        tn == (x1 - x3) * (y3 - y4) - (y1 - y3) * (x3 - x4)
        un == -((x1 - x2) * (y1 - y3) - (y1 - y2) * (x1 - x3))
    IN  IF denom = 0 THEN FALSE
        ELSE IF denom > 0
        THEN 0 <= tn /\ tn < denom /\ 0 < un /\ un < denom
        ELSE denom < tn /\ tn <= 0 /\ denom < un /\ un < 0

\* lines_intersect that counts touching end points (0 <= t <= 1, 0 <= u <= 1)
lines_intersect_closed(line1, line2) ==
    LET x1 == line1[1][1]
        y1 == line1[1][2]
        x2 == line1[2][1]
        y2 == line1[2][2]
        x3 == line2[1][1]
        y3 == line2[1][2]
        x4 == line2[2][1]
        y4 == line2[2][2]
        denom == (x1 - x2) * (y3 - y4) - (y1 - y2) * (x3 - x4)
        tn == (x1 - x3) * (y3 - y4) - (y1 - y3) * (x3 - x4)
        un == -((x1 - x2) * (y1 - y3) - (y1 - y2) * (x1 - x3))
    IN  IF denom = 0 THEN FALSE
        ELSE IF denom > 0
        THEN 0 <= tn /\ tn <= denom /\ 0 <= un /\ un <= denom
        ELSE denom <= tn /\ tn <= 0 /\ denom <= un /\ un <= 0

\* DotPattern._lines_intersect: 0 < t < 1 and 0 < u < 1, with t = tn / denom
\* and u = un / denom
lines_intersect(line1, line2) ==
    LET x1 == line1[1][1]
        y1 == line1[1][2]
        x2 == line1[2][1]
        y2 == line1[2][2]
        x3 == line2[1][1]
        y3 == line2[1][2]
        x4 == line2[2][1]
        y4 == line2[2][2]
        denom == (x1 - x2) * (y3 - y4) - (y1 - y2) * (x3 - x4)
        tn == (x1 - x3) * (y3 - y4) - (y1 - y3) * (x3 - x4)
        un == -((x1 - x2) * (y1 - y3) - (y1 - y2) * (x1 - x3))
        Inside(n) == IF denom > 0 THEN 0 < n /\ n < denom
                                  ELSE denom < n /\ n < 0
    IN  IF denom = 0 THEN FALSE ELSE Inside(tn) /\ Inside(un)

\* DotPattern._line_crosses_others
line_crosses_others(new_line, existing_lines) ==
    \E i \in 1..Len(existing_lines) : lines_intersect(new_line, existing_lines[i])

\* DotPattern._point_to_segment_distance(point, seg_start, seg_end) < num / den.
\* With s = (p - a).(b - a) and d = |b - a|^2 the clamped parameter is 0 for
\* s <= 0, 1 for s >= d and s / d between, where the squared distance is
\* (|p - a|^2 * d - s^2) / d.
point_to_segment_distance_lt(point, seg_start, seg_end, num, den) ==
    LET dx == seg_end[1] - seg_start[1]
        dy == seg_end[2] - seg_start[2]
        d == dx * dx + dy * dy
        s == (point[1] - seg_start[1]) * dx + (point[2] - seg_start[2]) * dy
    IN  IF d = 0 \/ s <= 0
        THEN den * den * Dist2(point, seg_start) < num * num
        ELSE IF s >= d
        THEN den * den * Dist2(point, seg_end) < num * num
        ELSE den * den * (Dist2(point, seg_start) * d - s * s) < num * num * d

\* DotPattern._line_too_close_to_other_dots
line_too_close_to_other_dots(line, idx1, idx2, ds) ==
    \E i \in 0..(Len(ds) - 1) :
        /\ i # idx1
        /\ i # idx2
        /\ point_to_segment_distance_lt(ds[i + 1], line[1], line[2],
                                        MIN_LINE_DOT_DISTANCE, 1)

\* ------------------------------------------------------------------------
\* DotPattern
\* ------------------------------------------------------------------------
\* DotPattern.__init__; base_dots = <<>> stands for None (an empty list is
\* treated alike by "if not self.dots")
DotPattern(num_dots, connectedness, pattern_id, base_dots) ==
    [num_dots |-> num_dots, connectedness |-> connectedness,
     pattern_id |-> pattern_id, dots |-> base_dots, lines |-> <<>>,
     connected_pairs |-> <<>>]

\* a name bound to no pattern
None == DotPattern(0, 0, -1, <<>>)

\* DotPattern.copy_dots: a deep copy, the same value in a new object
copy_dots(p) == p.dots


\* ------------------------------------------------------------------------
\* State
\* ------------------------------------------------------------------------
VARIABLES
    TEST_DOT_NUMBERS,              \* the dot numbers of the test patterns
    test_patterns_by_connectivity, \* generate_all_patterns: the three pools
    pattern_id,                    \* generate_all_patterns: next family id
    cond,                          \* position of num_dots in TEST_DOT_NUMBERS
    rep,                           \* repetition within the dot number
    retry,                         \* attempt of the current family
    fam,                           \* base_pattern, pattern_1conn, pattern_2conn
    base_dots,                     \* the copy of the base pattern's dots
    member,                        \* which pattern of fam is generating (self)
    pc,                            \* position in the program
    dots, attempts,                \* locals of _generate_dots
    lines,                         \* local of _generate_lines
    clines, connected_pairs, available_dots, conn_k, cattempt,
                                   \* locals of _generate_connecting_lines
    flines, num_lines, slot, fattempt,
                                   \* locals of _generate_free_lines
    draws,                         \* random draws made by this _generate_dots call
    test_patterns,                 \* generate_all_patterns: the interleaved list
    epc,                           \* run_experiment: position in the program
    reference_patterns, ref_retry, \* generate_all_patterns: the reference loop
    practice_trials,               \* create_practice_trials: trials
    trial_counter,                 \* run_experiment: trial_counter
    block_num,                     \* run_experiment: block_num
    indices, trials, half, tk,     \* create_trial_list: indices, trials, the
                                   \* running for loop and its position
    run_i,                         \* run_experiment: position in the list of
                                   \* trials being run
    arg_line1, arg_line2,          \* _lines_intersect: the two arguments
    crosses, crosses_TEST,         \* _lines_intersect: <<>> or the value the call
                                   \* returned, in the main and the TEST version
    heap,                          \* step 2: the list objects, by identity
    step_pc,                       \* generate_free_lines: position in the code
    existing_id, lines_id,         \* generate_free_lines: the objects named
                                   \* existing_lines and lines
    step_dots, step_num_lines,     \* generate_free_lines: dots, num_lines
    line_num, attempt,             \* generate_free_lines: the two loop counters
    order, left_right, idil_trials, \* create_trial_list of updated_code_idil.py:
                                   \* order, left_right, trials
    data,                          \* DetailedDataLogger: self.data['trials']
    replay,                        \* 0: one call of generate(); 1: the first of
                                   \* two calls; 2: the second
    stream, spos,                  \* the random values drawn by the first call
                                   \* and the position of the second call in them
    initial, first_run             \* the pattern as constructed and what the
                                   \* first call made of it

famVars ==
    <<TEST_DOT_NUMBERS, test_patterns_by_connectivity, pattern_id, cond, rep, retry,
      test_patterns>>
dotVars == <<dots, attempts, draws>>
connVars == <<clines, connected_pairs, available_dots, conn_k, cattempt>>
freeVars == <<flines, num_lines, slot, fattempt>>
trialVars == <<indices, trials, half, tk>>
expVars ==
    <<epc, reference_patterns, ref_retry, practice_trials, trial_counter, block_num,
      run_i, trialVars>>
genVars == <<famVars, fam, base_dots, member, pc, dotVars, lines, connVars, freeVars>>
kernelVars == <<arg_line1, arg_line2, crosses, crosses_TEST>>
stepVars ==
    <<heap, step_pc, existing_id, lines_id, step_dots, step_num_lines, line_num, attempt>>
idilVars == <<order, left_right, idil_trials>>
otherVars == <<kernelVars, stepVars, idilVars, data>>
replayVars == <<replay, stream, spos, initial, first_run>>
idleVars == <<otherVars, replayVars>>
vars == <<genVars, expVars, otherVars, replayVars>>

self == fam[member]
base_pattern == fam[0]
pattern_1conn == fam[1]
pattern_2conn == fam[2]
num_dots == TEST_DOT_NUMBERS[cond]

NoFamily == [m \in 0..2 |-> None]

\* run_experiment is not running
ExperimentIdle ==
    /\ epc = "idle"
    /\ reference_patterns = <<>>
    /\ ref_retry = 0
    /\ practice_trials = <<>>
    /\ trial_counter = 1
    /\ block_num = 0
    /\ indices = <<>>
    /\ trials = <<>>
    /\ half = 0
    /\ tk = 0
    /\ run_i = 0

\* no call of _lines_intersect is looked at
KernelIdle ==
    /\ arg_line1 = <<>>
    /\ arg_line2 = <<>>
    /\ crosses = <<>>
    /\ crosses_TEST = <<>>

\* generate_free_lines of the step-by-step scripts is not running
StepIdle ==
    /\ heap = <<>>
    /\ step_pc = "idle"
    /\ existing_id = 0
    /\ lines_id = 0
    /\ step_dots = <<>>
    /\ step_num_lines = 0
    /\ line_num = 0
    /\ attempt = 0

\* create_trial_list of updated_code_idil.py is not running
IdilIdle ==
    /\ order = <<>>
    /\ left_right = <<>>
    /\ idil_trials = <<>>

\* no trial has been logged
LogIdle == data = <<>>

OthersIdle ==
    /\ KernelIdle
    /\ StepIdle
    /\ IdilIdle
    /\ LogIdle

\* generate() is called once
ReplayIdle ==
    /\ replay = 0
    /\ stream = <<>>
    /\ spos = 0
    /\ initial = None
    /\ first_run = <<>>

\* the state at the start of the test-pattern loop of generate_all_patterns,
\* for the list of dot numbers tdn (9..15 in the code, here dot numbers the
\* sampled coordinates can hold)
InitFamilies(tdn) ==
    /\ TEST_DOT_NUMBERS = tdn
    /\ test_patterns_by_connectivity = [c \in 0..2 |-> <<>>]
    /\ pattern_id = 0
    /\ cond = 1
    /\ rep = 0
    /\ retry = 0
    /\ fam = NoFamily
    /\ base_dots = <<>>
    /\ member = 0
    /\ pc = "try"
    /\ dots = <<>>
    /\ attempts = 0
    /\ lines = <<>>
    /\ clines = <<>>
    /\ connected_pairs = <<>>
    /\ available_dots = <<>>
    /\ conn_k = 0
    /\ cattempt = 0
    /\ flines = <<>>
    /\ num_lines = 0
    /\ slot = 0
    /\ fattempt = 0
    /\ draws = 0
    /\ test_patterns = <<>>
    /\ ExperimentIdle
    /\ OthersIdle
    /\ ReplayIdle

Init == InitFamilies(<<2>>)

\* the locals of a function that has returned or was left by an exception
DotLocalsDead == dots' = <<>> /\ attempts' = 0 /\ draws' = 0
ConnLocalsDead ==
    /\ clines' = <<>>
    /\ connected_pairs' = <<>>
    /\ available_dots' = <<>>
    /\ conn_k' = 0
    /\ cattempt' = 0
FreeLocalsDead == flines' = <<>> /\ num_lines' = 0 /\ slot' = 0 /\ fattempt' = 0

\* the call self._generate_free_lines(n)
CallFreeLines(n) ==
    /\ pc' = "free"
    /\ flines' = <<>>
    /\ num_lines' = n
    /\ slot' = 0
    /\ fattempt' = 0

\* ------------------------------------------------------------------------
\* DotPattern.generate and DotPattern._generate_dots
\* ------------------------------------------------------------------------
\* needs_dots as it would be if generate always placed new dots
needs_dots_always(p) == TRUE

\* generate: "if not self.dots"
needs_dots(p) == p.dots = <<>>

\* generate, no dots given: self._generate_dots() starts
GenerateNewDots ==
    /\ pc = "generate"
    /\ needs_dots(self)
    /\ pc' = "dots"
    /\ dots' = <<>>
    /\ attempts' = 0
    /\ draws' = 0
    /\ UNCHANGED <<idleVars, expVars, famVars, fam, base_dots, member, lines, connVars, freeVars>>

\* generate, dots given: straight to self._generate_lines()
GenerateGivenDots ==
    /\ pc = "generate"
    /\ ~needs_dots(self)
    /\ pc' = "lines"
    /\ UNCHANGED <<idleVars, expVars, famVars, fam, base_dots, member, dotVars, lines, connVars, freeVars>>

\* dot_x_range without the boundary margin
dot_x_range_no_margin ==
    randint((-PATTERN_WIDTH) \div 2, PATTERN_WIDTH \div 2, DotXs)

\* _generate_dots: the arguments of the two random.randint calls
dot_x_range ==
    randint((-PATTERN_WIDTH) \div 2 + MIN_DOT_BOUNDARY_DISTANCE,
            PATTERN_WIDTH \div 2 - MIN_DOT_BOUNDARY_DISTANCE, DotXs)
dot_y_range ==
    randint((-PATTERN_HEIGHT) \div 2 + MIN_DOT_BOUNDARY_DISTANCE,
            PATTERN_HEIGHT \div 2 - MIN_DOT_BOUNDARY_DISTANCE, DotYs)

\* dot_valid with the dot diameter in the place of MIN_DOT_DISTANCE
dot_valid_diameter(x, y, ds) ==
    \A i \in 1..Len(ds) : ~(Dist2(<<x, y>>, ds[i]) < DOT_DIAMETER * DOT_DIAMETER)

\* _generate_dots: the candidate keeps MIN_DOT_DISTANCE from every placed dot
dot_valid(x, y, ds) ==
    \A i \in 1..Len(ds) :
        ~(Dist2(<<x, y>>, ds[i]) < MIN_DOT_DISTANCE * MIN_DOT_DISTANCE)

\* One result d of the random module (random.randint, random.uniform,
\* random.shuffle).  When generate() is run twice on the same stream, the
\* first run (replay = 1) records what it is given, up to MaxStream
\* results, and the second run (replay = 2) is given the recorded results
\* in the same order.
Draw(d) ==
    CASE replay = 0 -> UNCHANGED replayVars
      [] replay = 1 -> /\ Len(stream) < MaxStream
                       /\ stream' = Append(stream, d)
                       /\ UNCHANGED <<replay, spos, initial, first_run>>
      [] replay = 2 -> /\ spos < Len(stream)
                       /\ d = stream[spos + 1]
                       /\ spos' = spos + 1
                       /\ UNCHANGED <<replay, stream, initial, first_run>>

\* may_draw with an off-by-one loop test
may_draw_once_more(a) == a <= DotMaxAttempts

\* _generate_dots: "while attempts < max_attempts"
may_draw(a) == a < DotMaxAttempts

\* _generate_dots: one pass of the while loop
DrawDot ==
    /\ pc = "dots"
    /\ Len(dots) < self.num_dots
    /\ may_draw(attempts)
    /\ \E x \in dot_x_range, y \in dot_y_range :
          /\ Draw(<<x, y>>)
          /\ IF dot_valid(x, y, dots)
             THEN dots' = Append(dots, <<x, y>>) /\ attempts' = 0
             ELSE dots' = dots /\ attempts' = attempts + 1
    /\ draws' = draws + 1
    /\ UNCHANGED <<otherVars, expVars, famVars, fam, base_dots, member, pc, lines, connVars, freeVars>>

\* pattern_after_raise as it would be if the dots placed so far were kept
pattern_after_raise_partial(p, ds) == [p EXCEPT !.dots = ds]

\* generate: "self.dots = self._generate_dots()" is not executed when
\* _generate_dots raises, nor is the call of _generate_lines after it
pattern_after_raise(p, ds) == p

\* _generate_dots: the while loop has ended without a break;
\* "if attempts >= max_attempts: raise RuntimeError"
DotsRaise ==
    /\ pc = "dots"
    /\ ~may_draw(attempts)
    /\ attempts >= DotMaxAttempts
    /\ fam' = [fam EXCEPT ![member] = pattern_after_raise(self, dots)]
    /\ pc' = "except"
    /\ DotLocalsDead
    /\ UNCHANGED <<idleVars, expVars, famVars, base_dots, member, lines, connVars, freeVars>>

\* _generate_dots returns: self.dots = dots
DotsReturn ==
    /\ pc = "dots"
    /\ Len(dots) = self.num_dots
    /\ may_draw(attempts)
    /\ fam' = [fam EXCEPT ![member].dots = dots]
    /\ pc' = "lines"
    /\ DotLocalsDead
    /\ UNCHANGED <<idleVars, expVars, famVars, base_dots, member, lines, connVars, freeVars>>

\* ------------------------------------------------------------------------
\* DotPattern._generate_lines
\* ------------------------------------------------------------------------
\* connectedness 0: lines = self._generate_free_lines(NUM_LINES)
GenerateLinesFree ==
    /\ pc = "lines"
    /\ self.connectedness = 0
    /\ lines' = <<>>
    /\ CallFreeLines(NUM_LINES)
    /\ UNCHANGED <<idleVars, expVars, famVars, fam, base_dots, member, dotVars, connVars>>

\* otherwise self._generate_connecting_lines(self.connectedness) starts with
\* the shuffled list of all dot indices
GenerateLinesConnecting ==
    /\ pc = "lines"
    /\ self.connectedness # 0
    /\ lines' = <<>>
    /\ \E p \in Permutations0(Len(self.dots)) : available_dots' = p /\ Draw(p)
    /\ clines' = <<>>
    /\ connected_pairs' = <<>>
    /\ conn_k' = 0
    /\ cattempt' = 0
    /\ pc' = "connecting"
    /\ UNCHANGED <<otherVars, expVars, famVars, fam, base_dots, member, dotVars, freeVars>>

\* needs_more_lines as it would be without the while loop
needs_more_lines_never(ls) == FALSE

\* the while loop's test
needs_more_lines(ls) == Len(ls) < NUM_LINES

\* "while len(lines) < NUM_LINES": another _generate_free_lines call
TopUp ==
    /\ pc = "topup"
    /\ needs_more_lines(lines)
    /\ CallFreeLines(NUM_LINES - Len(lines))
    /\ UNCHANGED <<idleVars, expVars, famVars, fam, base_dots, member, dotVars, lines, connVars>>

\* _generate_lines returns, self.lines = lines, generate returns
LinesReturn ==
    /\ pc = "topup"
    /\ ~needs_more_lines(lines)
    /\ fam' = [fam EXCEPT ![member].lines = lines]
    /\ lines' = <<>>
    /\ pc' = "returned"
    /\ UNCHANGED <<idleVars, expVars, famVars, base_dots, member, dotVars, connVars, freeVars>>

\* ------------------------------------------------------------------------
\* DotPattern._generate_connecting_lines
\* ------------------------------------------------------------------------
\* pair_length_ok without the upper bound
pair_length_no_max(d2) == MIN_LINE_LENGTH * MIN_LINE_LENGTH <= d2

\* "MIN_LINE_LENGTH <= distance <= MAX_LINE_LENGTH", on the squared distance
pair_length_ok(d2) ==
    MIN_LINE_LENGTH * MIN_LINE_LENGTH <= d2 /\ d2 <= MAX_LINE_LENGTH * MAX_LINE_LENGTH

\* pair_ok with the lower length limit and the crossing test only
pair_ok_no_clearance(idx1, idx2, ds, ls) ==
    /\ pair_length_no_max(Dist2(ds[idx1 + 1], ds[idx2 + 1]))
    /\ ~line_crosses_others(<<ds[idx1 + 1], ds[idx2 + 1]>>, ls)

\* the three tests a pair idx1, idx2 passes to be connected
pair_ok(idx1, idx2, ds, ls) ==
    LET new_line == <<ds[idx1 + 1], ds[idx2 + 1]>>
    IN  /\ pair_length_ok(Dist2(ds[idx1 + 1], ds[idx2 + 1]))
        /\ ~line_crosses_others(new_line, ls)
        /\ ~line_too_close_to_other_dots(new_line, idx1, idx2, ds)

\* "for idx2 in available_dots[1:]": the position of the first idx2 that
\* passes, 0 when none does
scan_partner(avail, ds, ls) ==
    LET hits == {j \in 2..Len(avail) : pair_ok(avail[1], avail[j], ds, ls)}
    IN  IF hits = {} THEN 0 ELSE CHOOSE j \in hits : \A k \in hits : j <= k

\* available_after_found that leaves idx2 in the pool
available_after_found_keep(avail, idx1, idx2) == ListRemove(avail, idx1)

\* available_dots after a pair was found: both indices leave the pool
available_after_found(avail, idx1, idx2) ==
    ListRemove(ListRemove(avail, idx1), idx2)

\* available_after_rotate that leaves idx1 at the front
available_after_rotate_stay(avail, pairs) == avail

\* available_dots after a failed scan: idx1 moves to the back, unless it is
\* part of a connected pair
available_after_rotate(avail, pairs) ==
    LET idx1 == avail[1]
        rest == Tail(avail)
    IN  IF \A i \in 1..Len(pairs) : pairs[i][1] # idx1 /\ pairs[i][2] # idx1
        THEN Append(rest, idx1)
        ELSE rest

\* one pass of "for attempt in range(max_attempts)"
ConnAttempt ==
    /\ pc = "connecting"
    /\ conn_k < self.connectedness
    /\ Len(available_dots) >= 2
    /\ cattempt < ConnMaxAttempts
    /\ LET j == scan_partner(available_dots, self.dots, clines)
           idx1 == available_dots[1]
       IN  IF j # 0
           THEN /\ clines' = Append(clines, <<self.dots[idx1 + 1],
                                              self.dots[available_dots[j] + 1]>>)
                /\ connected_pairs' = Append(connected_pairs, <<idx1, available_dots[j]>>)
                /\ available_dots' = available_after_found(available_dots, idx1,
                                                           available_dots[j])
                /\ conn_k' = conn_k + 1
                /\ cattempt' = 0
           ELSE /\ available_dots' = available_after_rotate(available_dots, connected_pairs)
                /\ cattempt' = cattempt + 1
                /\ UNCHANGED <<clines, connected_pairs, conn_k>>
    /\ UNCHANGED <<idleVars, expVars, famVars, fam, base_dots, member, pc, dotVars, lines, freeVars>>

\* _generate_connecting_lines returns (all connections made, fewer than two
\* dots available, or no pair found); _generate_lines stores the pairs and
\* the lines and calls _generate_free_lines for the rest
ConnReturn ==
    /\ pc = "connecting"
    /\ \/ conn_k = self.connectedness
       \/ Len(available_dots) < 2
       \/ cattempt = ConnMaxAttempts
    /\ fam' = [fam EXCEPT ![member].connected_pairs = connected_pairs]
    /\ lines' = lines \o clines
    /\ ConnLocalsDead
    /\ IF NUM_LINES - Len(clines) > 0
       THEN CallFreeLines(NUM_LINES - Len(clines))
       ELSE pc' = "topup" /\ UNCHANGED freeVars
    /\ UNCHANGED <<idleVars, expVars, famVars, base_dots, member, dotVars>>

\* ------------------------------------------------------------------------
\* DotPattern._generate_free_lines
\* ------------------------------------------------------------------------
free_x_range ==
    randint((-PATTERN_WIDTH) \div 2 + 20, PATTERN_WIDTH \div 2 - 20, FreeXs)
free_y_range ==
    randint((-PATTERN_HEIGHT) \div 2 + 20, PATTERN_HEIGHT \div 2 - 20, FreeYs)

\* the end point: x1 + int(length * cos), y1 + int(length * sin)
free_line(x1, y1, angle, length) ==
    <<<<x1, y1>>,
      <<x1 + TruncDiv(length * angle.c, 1000), y1 + TruncDiv(length * angle.s, 1000)>>>>

\* the three tests of a free-line candidate: end point in bounds, no
\* crossing with the lines of this call, MIN_LINE_DOT_DISTANCE * 0.8
\* (= 48 / 5) from every dot
free_line_ok(new_line, ls, ds) ==
    /\ ~(\/ Abs(new_line[2][1]) > PATTERN_WIDTH \div 2 - 10
         \/ Abs(new_line[2][2]) > PATTERN_HEIGHT \div 2 - 10)
    /\ ~line_crosses_others(new_line, ls)
    /\ \A i \in 1..Len(ds) :
          ~point_to_segment_distance_lt(ds[i], new_line[1], new_line[2],
                                        MIN_LINE_DOT_DISTANCE * 4, 5)

\* one pass of "for attempt in range(max_attempts)"; after the last failed
\* pass the for loop over the lines goes on with the next line
FreeAttempt ==
    /\ pc = "free"
    /\ slot < num_lines
    /\ \E x1 \in free_x_range, y1 \in free_y_range, angle \in Angles,
          length \in randint(MIN_LINE_LENGTH, MAX_LINE_LENGTH, Lengths) :
          LET new_line == free_line(x1, y1, angle, length)
          IN  /\ Draw(<<x1, y1, angle.c, angle.s, length>>)
              /\ IF free_line_ok(new_line, flines, self.dots)
                 THEN flines' = Append(flines, new_line) /\ slot' = slot + 1 /\ fattempt' = 0
                 ELSE IF fattempt + 1 >= FreeMaxAttempts
                 THEN flines' = flines /\ slot' = slot + 1 /\ fattempt' = 0
                 ELSE flines' = flines /\ slot' = slot /\ fattempt' = fattempt + 1
    /\ UNCHANGED <<otherVars, expVars, famVars, fam, base_dots, member, pc, dotVars, lines, connVars, num_lines>>

\* _generate_free_lines returns; the caller extends lines
FreeReturn ==
    /\ pc = "free"
    /\ slot = num_lines
    /\ lines' = lines \o flines
    /\ pc' = "topup"
    /\ FreeLocalsDead
    /\ UNCHANGED <<idleVars, expVars, famVars, fam, base_dots, member, dotVars, connVars>>

\* ------------------------------------------------------------------------
\* generate_all_patterns: the family loop
\* ------------------------------------------------------------------------
\* the try block starts: base_pattern = DotPattern(...); base_pattern.generate()
Try ==
    /\ pc = "try"
    /\ fam' = [NoFamily EXCEPT ![0] = DotPattern(num_dots, 0, pattern_id, <<>>)]
    /\ base_dots' = <<>>
    /\ member' = 0
    /\ pc' = "generate"
    /\ UNCHANGED <<idleVars, expVars, famVars, dotVars, lines, connVars, freeVars>>

\* base_dots = base_pattern.copy_dots(); pattern_1conn = DotPattern(...);
\* pattern_1conn.generate()
Build1conn ==
    /\ pc = "returned"
    /\ member = 0
    /\ base_dots' = copy_dots(base_pattern)
    /\ fam' = [fam EXCEPT ![1] = DotPattern(num_dots, 1, pattern_id, base_dots')]
    /\ member' = 1
    /\ pc' = "generate"
    /\ UNCHANGED <<idleVars, expVars, famVars, dotVars, lines, connVars, freeVars>>

\* pattern_2conn = DotPattern(...); pattern_2conn.generate()
Build2conn ==
    /\ pc = "returned"
    /\ member = 1
    /\ fam' = [fam EXCEPT ![2] = DotPattern(num_dots, 2, pattern_id, base_dots)]
    /\ member' = 2
    /\ pc' = "generate"
    /\ UNCHANGED <<idleVars, expVars, famVars, base_dots, dotVars, lines, connVars, freeVars>>

\* commit_family without the third append
commit_two_pools(pools, p0, p1, p2) ==
    [pools EXCEPT ![0] = Append(@, p0), ![1] = Append(@, p1)]

\* the three appends
commit_family(pools, p0, p1, p2) ==
    [pools EXCEPT ![0] = Append(@, p0), ![1] = Append(@, p1), ![2] = Append(@, p2)]

\* all three generated: the appends, pattern_id += 1, break, and the for
\* loops go on to the next family
Commit ==
    /\ pc = "returned"
    /\ member = 2
    /\ test_patterns_by_connectivity' =
          commit_family(test_patterns_by_connectivity, base_pattern,
                        pattern_1conn, pattern_2conn)
    /\ pattern_id' = pattern_id + 1
    /\ retry' = 0
    /\ fam' = NoFamily
    /\ base_dots' = <<>>
    /\ member' = 0
    /\ IF rep + 1 < PATTERNS_PER_CONDITION
       THEN rep' = rep + 1 /\ cond' = cond /\ pc' = "try"
       ELSE IF cond < Len(TEST_DOT_NUMBERS)
       THEN rep' = 0 /\ cond' = cond + 1 /\ pc' = "try"
       ELSE rep' = rep /\ cond' = cond /\ pc' = "done"
    /\ UNCHANGED <<idleVars, expVars, test_patterns, TEST_DOT_NUMBERS, dotVars, lines, connVars, freeVars>>

\* last_retry one attempt too late
last_retry_late(r) == r = max_retries

\* "if retry == max_retries - 1"
last_retry(r) == r = max_retries - 1

\* except RuntimeError, not the last retry: continue
Retry ==
    /\ pc = "except"
    /\ ~last_retry(retry)
    /\ retry' = retry + 1
    /\ fam' = NoFamily
    /\ base_dots' = <<>>
    /\ member' = 0
    /\ pc' = "try"
    /\ UNCHANGED <<idleVars, expVars, test_patterns, TEST_DOT_NUMBERS, test_patterns_by_connectivity, pattern_id,
                   cond, rep, dotVars, lines, connVars, freeVars>>

\* except RuntimeError, last retry: raise
Reraise ==
    /\ pc = "except"
    /\ last_retry(retry)
    /\ fam' = NoFamily
    /\ base_dots' = <<>>
    /\ member' = 0
    /\ pc' = "raised"
    /\ UNCHANGED <<idleVars, expVars, famVars, dotVars, lines, connVars, freeVars>>

\* interleave that takes every entry from the pool of connectedness 0
interleave_base_only(pools) ==
    [j \in 1..(Len(pools[0]) * Len(CONNECTEDNESS_LEVELS)) |->
        pools[0][((j - 1) \div Len(CONNECTEDNESS_LEVELS)) + 1]]

\* "for i in range(len(test_patterns_by_connectivity[0])): for conn in
\* CONNECTEDNESS_LEVELS: test_patterns.append(...[conn][i])"
interleave(pools) ==
    [j \in 1..(Len(pools[0]) * Len(CONNECTEDNESS_LEVELS)) |->
        pools[CONNECTEDNESS_LEVELS[((j - 1) % Len(CONNECTEDNESS_LEVELS)) + 1]]
             [((j - 1) \div Len(CONNECTEDNESS_LEVELS)) + 1]]

\* the loops have ended: test_patterns is built and generate_all_patterns
\* returns
Interleave ==
    /\ pc = "done"
    /\ test_patterns' = interleave(test_patterns_by_connectivity)
    /\ pc' = "return"
    /\ UNCHANGED <<idleVars, expVars, TEST_DOT_NUMBERS, test_patterns_by_connectivity, pattern_id,
                   cond, rep, retry, fam, base_dots, member, dotVars, lines, connVars,
                   freeVars>>

\* ------------------------------------------------------------------------
\* Specifications
\* ------------------------------------------------------------------------
\* generate_all_patterns from the start of the test-pattern loop
Next ==
    \/ Try
    \/ GenerateNewDots
    \/ GenerateGivenDots
    \/ DrawDot
    \/ DotsRaise
    \/ DotsReturn
    \/ GenerateLinesFree
    \/ GenerateLinesConnecting
    \/ ConnAttempt
    \/ ConnReturn
    \/ FreeAttempt
    \/ FreeReturn
    \/ TopUp
    \/ LinesReturn
    \/ Build1conn
    \/ Build2conn
    \/ Commit
    \/ Retry
    \/ Reraise
    \/ Interleave

Spec == Init /\ [][Next]_vars

\* the same loop over families of four dots
InitFour == InitFamilies(<<4>>)

SpecFour == InitFour /\ [][Next]_vars

\* the same loop over two dot numbers, for the order of the families
InitOrder == InitFamilies(<<0, 2>>)

SpecOrder == InitOrder /\ [][Next]_vars

\* One call of DotPattern.generate() on a pattern of up to MaxDots dots,
\* constructed without dots or with the dots of GivenDots.
MaxDots == 4

\* dot layouts handed to the constructor as base_dots: a row the sampled
\* draws can produce, and a square of side 42 (its diagonals are 59.4 long
\* and cross)
GivenDots ==
    {<<<<-100, 150>>, <<-50, 150>>, <<0, 150>>, <<50, 150>>>>,
     <<<<-100, 108>>, <<-58, 108>>, <<-58, 150>>, <<-100, 150>>>>}

InitPattern ==
    /\ TEST_DOT_NUMBERS = <<>>
    /\ test_patterns_by_connectivity = [c \in 0..2 |-> <<>>]
    /\ pattern_id = 0
    /\ cond = 1
    /\ rep = 0
    /\ retry = 0
    /\ \E n \in 0..MaxDots, c \in Range(CONNECTEDNESS_LEVELS),
          bd \in {<<>>} \cup GivenDots :
          /\ bd # <<>> => Len(bd) = n
          /\ fam = [NoFamily EXCEPT ![0] = DotPattern(n, c, 0, bd)]
    /\ base_dots = <<>>
    /\ member = 0
    /\ pc = "generate"
    /\ dots = <<>>
    /\ attempts = 0
    /\ lines = <<>>
    /\ clines = <<>>
    /\ connected_pairs = <<>>
    /\ available_dots = <<>>
    /\ conn_k = 0
    /\ cattempt = 0
    /\ flines = <<>>
    /\ num_lines = 0
    /\ slot = 0
    /\ fattempt = 0
    /\ draws = 0
    /\ test_patterns = <<>>
    /\ ExperimentIdle
    /\ OthersIdle
    /\ ReplayIdle

NextPattern ==
    \/ GenerateNewDots
    \/ GenerateGivenDots
    \/ DrawDot
    \/ DotsRaise
    \/ DotsReturn
    \/ GenerateLinesFree
    \/ GenerateLinesConnecting
    \/ ConnAttempt
    \/ ConnReturn
    \/ FreeAttempt
    \/ FreeReturn
    \/ TopUp
    \/ LinesReturn

SpecPattern == InitPattern /\ [][NextPattern]_vars

\* the same call, with the interpreter always taking the next step of the
\* running code
SpecPatternFair == SpecPattern /\ WF_vars(NextPattern)

\* ------------------------------------------------------------------------
\* Properties
\* ------------------------------------------------------------------------
\* the patterns of the pools
PoolPatterns == UNION {Range(test_patterns_by_connectivity[c]) : c \in 0..2}

\* the patterns whose generate() has returned normally
Generated ==
    PoolPatterns \cup
    {fam[m] : m \in {k \in 0..2 : k < member \/ (k = member /\ pc = "returned")}}

\* the families committed by the loop so far
FamiliesCommitted ==
    IF pc \in {"done", "return"}
    THEN Len(TEST_DOT_NUMBERS) * PATTERNS_PER_CONDITION
    ELSE (cond - 1) * PATTERNS_PER_CONDITION + rep

NoCrossing(ls) ==
    \A i, j \in 1..Len(ls) : ~lines_intersect(ls[i], ls[j])

\* no index in two pairs, no pair of an index with itself
PairsDisjoint(pairs) ==
    /\ \A i \in 1..Len(pairs) : pairs[i][1] # pairs[i][2]
    /\ \A i, j \in 1..Len(pairs) :
          i # j => {pairs[i][1], pairs[i][2]} \cap {pairs[j][1], pairs[j][2]} = {}

\* line ls[i] joins the dots of pairs[i], which are MIN_LINE_LENGTH to
\* MAX_LINE_LENGTH apart
PairsAreLines(pairs, ls, ds) ==
    /\ Len(pairs) <= Len(ls)
    /\ \A i \in 1..Len(pairs) :
          LET a == ds[pairs[i][1] + 1]
              b == ds[pairs[i][2] + 1]
          IN  /\ ls[i] = <<a, b>>
              /\ MIN_LINE_LENGTH * MIN_LINE_LENGTH <= Dist2(a, b)
              /\ Dist2(a, b) <= MAX_LINE_LENGTH * MAX_LINE_LENGTH

\* C1: the three patterns stored at one pool index have the same dots, the
\* same num_dots and the same pattern_id.
C1_FamilySharesDots ==
    \A c \in 1..2 :
        \A i \in 1..Len(test_patterns_by_connectivity[c]) :
            /\ i <= Len(test_patterns_by_connectivity[0])
            /\ test_patterns_by_connectivity[c][i].dots =
                  test_patterns_by_connectivity[0][i].dots
            /\ test_patterns_by_connectivity[c][i].num_dots =
                  test_patterns_by_connectivity[0][i].num_dots
            /\ test_patterns_by_connectivity[c][i].pattern_id =
                  test_patterns_by_connectivity[0][i].pattern_id

\* a stored family whose members have different lines and pairs
C1_Witness ==
    /\ Len(test_patterns_by_connectivity[2]) >= 1
    /\ test_patterns_by_connectivity[1][1].lines # test_patterns_by_connectivity[0][1].lines
    /\ test_patterns_by_connectivity[2][1].connected_pairs # <<>>
    /\ test_patterns_by_connectivity[0][1].dots # <<>>

\* C2: the three pools always have the same length, the number of families
\* committed: a family enters the pools whole, and an attempt that raised
\* has added nothing.
C2_AllOrNothing ==
    /\ pattern_id = FamiliesCommitted
    /\ \A c \in 0..2 : Len(test_patterns_by_connectivity[c]) = pattern_id

\* a first attempt has raised and the retry has generated its three
\* patterns: the commit is next
C2_Witness ==
    /\ pc = "returned"
    /\ member = 2
    /\ retry = 1

\* C3: a member whose line layout cannot be completed - the search for
\* connecting lines ends with fewer pairs than requested, or a free line
\* uses up its attempts - makes the family attempt end in the except
\* handler, which discards it.
C3_LineFailureDiscards ==
    [][/\ (/\ pc = "connecting"
           /\ pc' # "connecting"
           /\ Len(connected_pairs) < self.connectedness) => pc' = "except"
       /\ (/\ pc = "free"
           /\ slot' = slot + 1
           /\ flines' = flines) => pc' = "except"]_vars

\* C4: every pattern of a pool has as many connected pairs as its
\* connectedness.
C4_PairsMatchConnectedness ==
    \A p \in PoolPatterns : Len(p.connected_pairs) = p.connectedness

\* C5: a pattern whose generate() returned has exactly NUM_LINES lines.
C5_FourLines ==
    \A p \in Generated : Len(p.lines) = NUM_LINES

\* a four-dot pattern of connectedness 2 that found one pair only and got
\* three free lines
C5_Witness ==
    \E p \in Generated :
        /\ Len(p.dots) = 4
        /\ p.connectedness = 2
        /\ Len(p.connected_pairs) = 1
        /\ Len(p.lines) = NUM_LINES

\* C6: in a pattern whose generate() returned, no two lines cross.
C6_NoTwoLinesCross ==
    \A p \in Generated : NoCrossing(p.lines)

\* C7: in every state of the search for connecting lines and in every
\* generated pattern, no dot index is in two connected pairs or paired with
\* itself, and no connected dot is in the pool of available dots.
C7_PairsDisjoint ==
    /\ PairsDisjoint(connected_pairs)
    /\ \A i \in 1..Len(connected_pairs) :
          /\ connected_pairs[i][1] \notin Range(available_dots)
          /\ connected_pairs[i][2] \notin Range(available_dots)
    /\ \A p \in Generated : PairsDisjoint(p.connected_pairs)

\* the search has connected two pairs
C7_Witness ==
    /\ pc = "connecting"
    /\ Len(connected_pairs) = 2

\* C8: every connecting line joins the two dots of the pair at its
\* position, and these are MIN_LINE_LENGTH to MAX_LINE_LENGTH apart.
C8_ConnectingLinesJoinPairs ==
    /\ Len(clines) = Len(connected_pairs)
    /\ PairsAreLines(connected_pairs, clines, self.dots)
    /\ \A p \in Generated : PairsAreLines(p.connected_pairs, p.lines, p.dots)

\* a generated pattern with two connecting lines
C8_Witness ==
    \E p \in Generated : Len(p.connected_pairs) = 2 /\ Len(p.lines) = NUM_LINES

\* C9: in every state of the placement loop the dots placed so far are
\* pairwise at least MIN_DOT_DISTANCE apart.
C9_DotsApart ==
    \A i, j \in 1..Len(dots) :
        i # j => Dist2(dots[i], dots[j]) >= MIN_DOT_DISTANCE * MIN_DOT_DISTANCE

\* three dots placed and a draw for the fourth rejected as too close
C9_Witness ==
    /\ pc = "dots"
    /\ Len(dots) = 3
    /\ attempts = 1

\* C10: every placed dot lies in the rectangle that keeps
\* MIN_DOT_BOUNDARY_DISTANCE from the edges of the pattern.
C10_DotsInBounds ==
    \A i \in 1..Len(dots) :
        /\ 2 * dots[i][1] >= -PATTERN_WIDTH + 2 * MIN_DOT_BOUNDARY_DISTANCE
        /\ 2 * dots[i][1] <= PATTERN_WIDTH - 2 * MIN_DOT_BOUNDARY_DISTANCE
        /\ 2 * dots[i][2] >= -PATTERN_HEIGHT + 2 * MIN_DOT_BOUNDARY_DISTANCE
        /\ 2 * dots[i][2] <= PATTERN_HEIGHT - 2 * MIN_DOT_BOUNDARY_DISTANCE

\* all dots of a four-dot pattern placed
C10_Witness ==
    /\ pc = "dots"
    /\ Len(dots) = 4

\* C11: _generate_dots draws a candidate only while the dot has had fewer
\* than the maximum of rejected draws, raises exactly when a dot has had
\* that many, returns only with num_dots dots, and makes no more draws in
\* one call than the maximum for each of the num_dots dots.
C11_DotDrawBudget ==
    /\ [](pc = "dots" =>
            /\ attempts <= DotMaxAttempts
            /\ Len(dots) <= self.num_dots
            /\ draws <= DotMaxAttempts * self.num_dots)
    /\ [][/\ (pc = "dots" /\ draws' = draws + 1) => attempts < DotMaxAttempts
          /\ (pc = "dots" /\ pc' = "except") => attempts = DotMaxAttempts
          /\ (pc = "dots" /\ attempts = DotMaxAttempts) => pc' = "except"
          /\ (pc = "dots" /\ pc' = "lines") => Len(dots) = self.num_dots]_vars

\* dots were placed, then one dot had all its draws rejected
C11_Witness ==
    /\ pc = "dots"
    /\ attempts = DotMaxAttempts
    /\ draws > DotMaxAttempts

\* line keeps MIN_LINE_DOT_DISTANCE from every dot of ds but those of skip
ClearOfDots(line, ds, skip) ==
    \A j \in 0..(Len(ds) - 1) :
        j \notin skip =>
            ~point_to_segment_distance_lt(ds[j + 1], line[1], line[2],
                                          MIN_LINE_DOT_DISTANCE, 1)

\* C12: every free line accepted by _generate_free_lines is at least
\* MIN_LINE_DOT_DISTANCE from every dot of the pattern.
C12_FreeLinesClearOfDots ==
    pc = "free" => \A i \in 1..Len(flines) : ClearOfDots(flines[i], self.dots, {})

\* C13: every connecting line accepted by _generate_connecting_lines is at
\* least MIN_LINE_DOT_DISTANCE from every dot but the two it joins, during
\* the search and in the generated pattern.
C13_ConnectingLinesClearOfDots ==
    /\ pc = "connecting" =>
          \A i \in 1..Len(clines) :
              ClearOfDots(clines[i], self.dots,
                          {connected_pairs[i][1], connected_pairs[i][2]})
    /\ \A p \in Generated :
          \A i \in 1..Len(p.connected_pairs) :
              ClearOfDots(p.lines[i], p.dots,
                          {p.connected_pairs[i][1], p.connected_pairs[i][2]})

\* a connecting line was accepted in a pattern with dots it does not join
C13_Witness ==
    /\ pc = "connecting"
    /\ Len(clines) >= 1
    /\ Len(self.dots) >= 4

\* C14: a family gets at most max_retries attempts, each starting from a
\* base pattern without dots, so that generate() samples a new layout; a
\* failed attempt before the last leads to the next attempt, the last one
\* to the re-raised RuntimeError, after which nothing is returned.
C14_RetryBudget ==
    /\ [](/\ retry <= max_retries - 1
          /\ (pc = "generate" /\ member = 0) => base_pattern.dots = <<>>
          /\ pc = "raised" => (retry = max_retries - 1 /\ test_patterns = <<>>))
    /\ [][/\ (pc = "except" /\ retry < max_retries - 1) =>
                (pc' = "try" /\ retry' = retry + 1)
          /\ (pc = "except" /\ retry = max_retries - 1) => pc' = "raised"
          /\ pc = "raised" => pc' = "raised"]_vars

\* every attempt of a family has failed
C14_Witness == pc = "raised"

\* C18: when generate_all_patterns returns, test_patterns holds three
\* entries for each of the Len(TEST_DOT_NUMBERS) * PATTERNS_PER_CONDITION
\* families (with the code's values: TRIALS_PER_HALF_BLOCK entries), entry
\* 3 * i + k is the member of family i with connectedness
\* CONNECTEDNESS_LEVELS[k], and every combination of dot number and
\* connectedness occurs PATTERNS_PER_CONDITION times.
C18_InterleavedByFamily ==
    /\ Len(CONNECTEDNESS_LEVELS) * Len(CodeTestDotNumbers) * CodePatternsPerCondition
          = CodeTrialsPerHalfBlock
    /\ pc = "return" =>
          /\ Len(test_patterns) =
                Len(CONNECTEDNESS_LEVELS) * Len(TEST_DOT_NUMBERS) * PATTERNS_PER_CONDITION
          /\ \A i \in 0..(Len(TEST_DOT_NUMBERS) * PATTERNS_PER_CONDITION - 1) :
                \A k \in 0..2 :
                    LET p == test_patterns[3 * i + k + 1]
                    IN  /\ p = test_patterns_by_connectivity[CONNECTEDNESS_LEVELS[k + 1]][i + 1]
                        /\ p.connectedness = CONNECTEDNESS_LEVELS[k + 1]
                        /\ p.pattern_id = i
          /\ \A n \in Range(TEST_DOT_NUMBERS), c \in Range(CONNECTEDNESS_LEVELS) :
                Cardinality({j \in 1..Len(test_patterns) :
                                /\ test_patterns[j].num_dots = n
                                /\ test_patterns[j].connectedness = c})
                   = PATTERNS_PER_CONDITION

\* generate_all_patterns has returned the patterns of two families of
\* different dot numbers
C18_Witness ==
    /\ pc = "return"
    /\ Len(test_patterns) >= 6
    /\ test_patterns[4].num_dots # test_patterns[1].num_dots
    /\ test_patterns[6].connected_pairs # <<>>

\* C15: every call of generate() ends: it returns or raises RuntimeError.
C15_GenerateTerminates == <>(pc \in {"returned", "except"})

\* C20: when _generate_dots raises, the step that leaves it changes no
\* pattern and generates no line, and in the handler's state the pattern is
\* as it was constructed: no dots, no lines, no connected pairs.
C20_FailedPlacementStoresNothing ==
    /\ [](pc = "except" =>
            self = DotPattern(self.num_dots, self.connectedness, self.pattern_id, <<>>))
    /\ [][(pc = "dots" /\ pc' = "except") =>
            (fam' = fam /\ lines' = <<>> /\ clines' = <<>> /\ flines' = <<>>)]_vars

\* placement has failed for a pattern of two or more dots, the first of
\* which is always placed
C20_Witness ==
    /\ pc = "except"
    /\ self.num_dots >= 2

\* ------------------------------------------------------------------------
\* run_experiment, create_practice_trials, create_trial_list
\* ------------------------------------------------------------------------
\* In this part a pattern is named by the list it is in and its position
\* there, and one call of generate() is one step with the two ways the call
\* ends, a return and a RuntimeError.
GenerateOutcomes == {"returned", "except"}

\* no pattern is being generated step by step
GenerationIdle ==
    /\ TEST_DOT_NUMBERS = <<>>
    /\ test_patterns_by_connectivity = [c \in 0..2 |-> <<>>]
    /\ pattern_id = 0
    /\ cond = 1
    /\ rep = 0
    /\ retry = 0
    /\ test_patterns = <<>>
    /\ fam = NoFamily
    /\ base_dots = <<>>
    /\ member = 0
    /\ pc = "idle"
    /\ dots = <<>>
    /\ attempts = 0
    /\ draws = 0
    /\ lines = <<>>
    /\ clines = <<>>
    /\ connected_pairs = <<>>
    /\ available_dots = <<>>
    /\ conn_k = 0
    /\ cattempt = 0
    /\ flines = <<>>
    /\ num_lines = 0
    /\ slot = 0
    /\ fattempt = 0

\* run_experiment calls generate_all_patterns, which starts with the loop
\* over the reference patterns
InitExperiment ==
    /\ GenerationIdle
    /\ OthersIdle
    /\ ReplayIdle
    /\ epc = "references"
    /\ reference_patterns = <<>>
    /\ ref_retry = 0
    /\ practice_trials = <<>>
    /\ trial_counter = 1
    /\ block_num = 0
    /\ run_i = 0
    /\ indices = <<>>
    /\ trials = <<>>
    /\ half = 0
    /\ tk = 0

\* generate_all_patterns, one pass of "for retry in range(max_retries)" for
\* reference pattern i = Len(reference_patterns): the pattern is appended,
\* or the RuntimeError is handled by continue or, on the last retry, raise
ReferenceAttempt ==
    /\ epc = "references"
    /\ Len(reference_patterns) < TRIALS_PER_HALF_BLOCK
    /\ \E outcome \in GenerateOutcomes :
          IF outcome = "returned"
          THEN /\ reference_patterns' =
                     Append(reference_patterns, <<"reference", Len(reference_patterns)>>)
               /\ ref_retry' = 0
               /\ epc' = epc
          ELSE /\ reference_patterns' = reference_patterns
               /\ IF ref_retry = max_retries - 1
                  THEN ref_retry' = ref_retry /\ epc' = "aborted"
                  ELSE ref_retry' = ref_retry + 1 /\ epc' = epc
    /\ UNCHANGED <<idleVars, genVars, practice_trials, trial_counter, block_num, run_i, trialVars>>

\* generate_all_patterns, from the loop over the test patterns to the
\* return: the list of TRIALS_PER_HALF_BLOCK test patterns is returned, or
\* the RuntimeError of a family that used up its retries goes on to the
\* caller of run_experiment
GenerateTestPatterns ==
    /\ epc = "references"
    /\ Len(reference_patterns) = TRIALS_PER_HALF_BLOCK
    /\ \E outcome \in GenerateOutcomes :
          IF outcome = "returned"
          THEN /\ test_patterns' = [j \in 1..TRIALS_PER_HALF_BLOCK |-> <<"test", j - 1>>]
               /\ epc' = "practice_patterns"
          ELSE /\ test_patterns' = test_patterns
               /\ epc' = "aborted"
    /\ UNCHANGED <<idleVars, TEST_DOT_NUMBERS, test_patterns_by_connectivity,
                   pattern_id, cond, rep, retry, fam, base_dots, member, pc, dotVars, lines, connVars, freeVars,
                   reference_patterns, ref_retry, practice_trials, trial_counter,
                   block_num, run_i, trialVars>>

\* a trial dictionary (num_dots and connectedness, copies of the test
\* pattern's fields, are left out)
Trial(b, h, ref_pattern, test_pattern, test_on_left) ==
    [block |-> b, half |-> h, reference_pattern |-> ref_pattern,
     test_pattern |-> test_pattern, test_on_left |-> test_on_left]

\* practice_ready as it would be if the trials were run as they are made
practice_ready_first(n) == n >= 1

\* create_practice_trials: "for i in range(NUM_PRACTICE_TRIALS)" has ended
practice_ready(n) == n = NUM_PRACTICE_TRIALS

\* create_practice_trials, one pass of the loop: the test pattern is
\* generated and the trial appended, or the RuntimeError, which nothing
\* handles, ends run_experiment
PracticePattern ==
    /\ epc = "practice_patterns"
    /\ ~practice_ready(Len(practice_trials))
    /\ \E outcome \in GenerateOutcomes, test_on_left \in BOOLEAN :
          LET i == Len(practice_trials)
              ref_pattern == reference_patterns[(i % Len(reference_patterns)) + 1]
          IN  IF outcome = "returned"
              THEN /\ practice_trials' =
                         Append(practice_trials,
                                Trial(0, 0, ref_pattern, <<"practice", i>>, test_on_left))
                   /\ epc' = epc
              ELSE /\ practice_trials' = practice_trials
                   /\ epc' = "aborted"
    /\ UNCHANGED <<idleVars, genVars, reference_patterns, ref_retry, trial_counter, block_num,
                   run_i, trialVars>>

\* create_practice_trials returns and the loop over practice_trials starts
PracticeStart ==
    /\ epc = "practice_patterns"
    /\ practice_ready(Len(practice_trials))
    /\ epc' = "practice"
    /\ run_i' = 0
    /\ UNCHANGED <<idleVars, genVars, reference_patterns, ref_retry, practice_trials,
                   trial_counter, block_num, trialVars>>

\* "for i, trial in enumerate(practice_trials): run_trial(...);
\* trial_counter += 1"
PracticeTrial ==
    /\ epc = "practice"
    /\ run_i < Len(practice_trials)
    /\ trial_counter' = trial_counter + 1
    /\ run_i' = run_i + 1
    /\ UNCHANGED <<idleVars, genVars, epc, reference_patterns, ref_retry, practice_trials,
                   block_num, trialVars>>

\* the practice loop has ended: the first block starts, create_trial_list
\* is called and shuffles the indices
FirstBlock ==
    /\ epc = "practice"
    /\ run_i = Len(practice_trials)
    /\ block_num' = 1
    /\ \E p \in Permutations0(TRIALS_PER_HALF_BLOCK) : indices' = p
    /\ trials' = <<>>
    /\ half' = 1
    /\ tk' = 0
    /\ epc' = "trial_list"
    /\ UNCHANGED <<idleVars, genVars, reference_patterns, ref_retry, practice_trials,
                   trial_counter, run_i>>

\* create_trial_list, one pass of the first "for idx in indices"
FirstHalfTrial ==
    /\ epc = "trial_list"
    /\ half = 1
    /\ tk < Len(indices)
    /\ \E test_on_left \in BOOLEAN :
          LET idx == indices[tk + 1]
          IN  trials' = Append(trials,
                               Trial(block_num, 1, reference_patterns[idx + 1],
                                     test_patterns[idx + 1], test_on_left))
    /\ IF tk + 1 = Len(indices)
       THEN half' = 2 /\ tk' = 0
       ELSE half' = half /\ tk' = tk + 1
    /\ UNCHANGED <<idleVars, genVars, epc, reference_patterns, ref_retry, practice_trials,
                   trial_counter, block_num, run_i, indices>>

\* original_position that always finds the first trial
original_position_first(inds, idx) == 0

\* "indices.index(idx)": the first position of idx in indices
original_position(inds, idx) ==
    (CHOOSE j \in 1..Len(inds) :
        inds[j] = idx /\ \A k \in 1..(j - 1) : inds[k] # idx) - 1

\* second_half_side without the negation
second_half_side_same(original_test_on_left) == original_test_on_left

\* "test_on_left = not original_trial['test_on_left']"
second_half_side(original_test_on_left) == ~original_test_on_left

\* create_trial_list, one pass of the second "for idx in indices"
SecondHalfTrial ==
    /\ epc = "trial_list"
    /\ half = 2
    /\ tk < Len(indices)
    /\ LET idx == indices[tk + 1]
           original_trial == trials[original_position(indices, idx) + 1]
       IN  trials' = Append(trials,
                            Trial(block_num, 2, reference_patterns[idx + 1],
                                  test_patterns[idx + 1],
                                  second_half_side(original_trial.test_on_left)))
    /\ tk' = tk + 1
    /\ UNCHANGED <<idleVars, genVars, epc, reference_patterns, ref_retry, practice_trials,
                   trial_counter, block_num, run_i, indices, half>>

\* create_trial_list returns and the loop over the block's trials starts
BlockStart ==
    /\ epc = "trial_list"
    /\ half = 2
    /\ tk = Len(indices)
    /\ epc' = "block"
    /\ run_i' = 0
    /\ UNCHANGED <<idleVars, genVars, reference_patterns, ref_retry, practice_trials,
                   trial_counter, block_num, trialVars>>

\* "for i, trial in enumerate(trials): run_trial(...); trial_counter += 1"
BlockTrial ==
    /\ epc = "block"
    /\ run_i < Len(trials)
    /\ trial_counter' = trial_counter + 1
    /\ run_i' = run_i + 1
    /\ UNCHANGED <<idleVars, genVars, epc, reference_patterns, ref_retry, practice_trials,
                   block_num, trialVars>>

\* the block's loop has ended: the next block calls create_trial_list
NextBlock ==
    /\ epc = "block"
    /\ run_i = Len(trials)
    /\ block_num < NUM_BLOCKS
    /\ block_num' = block_num + 1
    /\ \E p \in Permutations0(TRIALS_PER_HALF_BLOCK) : indices' = p
    /\ trials' = <<>>
    /\ half' = 1
    /\ tk' = 0
    /\ epc' = "trial_list"
    /\ UNCHANGED <<idleVars, genVars, reference_patterns, ref_retry, practice_trials,
                   trial_counter, run_i>>

\* the last block has ended: the data are saved and run_experiment ends
ExperimentEnd ==
    /\ epc = "block"
    /\ run_i = Len(trials)
    /\ block_num = NUM_BLOCKS
    /\ epc' = "end"
    /\ UNCHANGED <<idleVars, genVars, reference_patterns, ref_retry, practice_trials,
                   trial_counter, block_num, run_i, trialVars>>

NextExperiment ==
    \/ ReferenceAttempt
    \/ GenerateTestPatterns
    \/ PracticePattern
    \/ PracticeStart
    \/ PracticeTrial
    \/ FirstBlock
    \/ FirstHalfTrial
    \/ SecondHalfTrial
    \/ BlockStart
    \/ BlockTrial
    \/ NextBlock
    \/ ExperimentEnd

SpecExperiment == InitExperiment /\ [][NextExperiment]_vars

\* C16: trial TRIALS_PER_HALF_BLOCK + k of a block, once made, is a trial
\* of half 2 with the reference pattern and the test pattern of trial k,
\* a trial of half 1, and with the test pattern on the other side.
C16_SecondHalfMirrorsFirst ==
    epc \in {"trial_list", "block"} =>
        \A k \in 0..(TRIALS_PER_HALF_BLOCK - 1) :
            TRIALS_PER_HALF_BLOCK + k + 1 <= Len(trials) =>
                LET first == trials[k + 1]
                    second == trials[TRIALS_PER_HALF_BLOCK + k + 1]
                IN  /\ first.half = 1
                    /\ second.half = 2
                    /\ second.reference_pattern = first.reference_pattern
                    /\ second.test_pattern = first.test_pattern
                    /\ second.test_on_left = ~first.test_on_left

\* a finished block whose first half is not in index order and has the
\* test pattern on both sides
C16_Witness ==
    /\ epc = "block"
    /\ indices[1] # 0
    /\ trials[1].test_on_left
    /\ ~trials[2].test_on_left

\* the positions in trials of the trials that use the patterns of index idx
TrialsOfIndex(idx) ==
    {j \in 1..Len(trials) :
        /\ trials[j].reference_pattern = reference_patterns[idx + 1]
        /\ trials[j].test_pattern = test_patterns[idx + 1]}

\* C17: a block returned by create_trial_list has 2 * TRIALS_PER_HALF_BLOCK
\* trials, and the patterns of every index are used by exactly two of
\* them, one of half 1 and one of half 2, one with the test pattern on the
\* left and one with it on the right.
C17_EachIndexTwice ==
    epc = "block" =>
        /\ Len(trials) = 2 * TRIALS_PER_HALF_BLOCK
        /\ \A j \in 1..Len(trials) :
              \E idx \in 0..(TRIALS_PER_HALF_BLOCK - 1) : j \in TrialsOfIndex(idx)
        /\ \A idx \in 0..(TRIALS_PER_HALF_BLOCK - 1) :
              /\ Cardinality(TrialsOfIndex(idx)) = 2
              /\ {trials[j].half : j \in TrialsOfIndex(idx)} = {1, 2}
              /\ {trials[j].test_on_left : j \in TrialsOfIndex(idx)} = BOOLEAN

\* the trials of the last block are being run
C17_Witness ==
    /\ epc = "block"
    /\ block_num = NUM_BLOCKS
    /\ run_i = Len(trials)

\* C19: once a trial has been run, all reference patterns, all test
\* patterns and all practice patterns have been generated; a run ended by a
\* failed generation has run no trial.
C19_NoTrialBeforeAllPatterns ==
    /\ trial_counter > 1 =>
          /\ Len(reference_patterns) = TRIALS_PER_HALF_BLOCK
          /\ Len(test_patterns) = TRIALS_PER_HALF_BLOCK
          /\ Len(practice_trials) = NUM_PRACTICE_TRIALS
    /\ epc = "aborted" => trial_counter = 1
    /\ epc \in {"practice", "trial_list", "block", "end"} =>
          Len(practice_trials) = NUM_PRACTICE_TRIALS

\* the first practice trial has been run
C19_Witness ==
    /\ epc = "practice"
    /\ trial_counter = 2

\* ------------------------------------------------------------------------
\* experiment1_TEST_VERSION.py: the reduced version of the experiment.
\* DotPattern.generate, _generate_dots and the retry handling are the code
\* of experiment1_connectedness.py; the settings and the line generation
\* differ and are modelled here.
\* ------------------------------------------------------------------------
PATTERN_WIDTH_TEST == 240
PATTERN_HEIGHT_TEST == 320
MIN_DOT_DISTANCE_TEST == 38
MIN_DOT_BOUNDARY_DISTANCE_TEST == 10
MIN_LINE_SEPARATION == 8
CONNECTEDNESS_LEVELS_TEST == <<0, 2>>

\* sampled values of the random draws of the TEST version's free lines
TestFreeXs == {-75, -25, 25, 75}
TestFreeYs == {100}
TestLengths == {40}

\* lines_intersect_TEST with the margin on the outside of the segments
\* (-0.01 < t < 1.01 and -0.01 < u < 1.01)
lines_intersect_TEST_wide(line1, line2) ==
    LET x1 == line1[1][1]
        y1 == line1[1][2]
        x2 == line1[2][1]
        y2 == line1[2][2]
        x3 == line2[1][1]
        y3 == line2[1][2]
        x4 == line2[2][1]
        y4 == line2[2][2]
        denom == (x1 - x2) * (y3 - y4) - (y1 - y2) * (x3 - x4)
        tn == (x1 - x3) * (y3 - y4) - (y1 - y3) * (x3 - x4)
        un == -((x1 - x2) * (y1 - y3) - (y1 - y2) * (x1 - x3))
        Inside(n) == IF denom > 0 THEN -denom < 100 * n /\ 100 * n < 101 * denom
                                  ELSE 101 * denom < 100 * n /\ 100 * n < -denom
    IN  IF denom = 0 THEN FALSE ELSE Inside(tn) /\ Inside(un)

\* _lines_intersect of the TEST version: 0.01 < t < 0.99 and 0.01 < u < 0.99,
\* with t = tn / denom and u = un / denom compared on the integers
lines_intersect_TEST(line1, line2) ==
    LET x1 == line1[1][1]
        y1 == line1[1][2]
        x2 == line1[2][1]
        y2 == line1[2][2]
        x3 == line2[1][1]
        y3 == line2[1][2]
        x4 == line2[2][1]
        y4 == line2[2][2]
        denom == (x1 - x2) * (y3 - y4) - (y1 - y2) * (x3 - x4)
        tn == (x1 - x3) * (y3 - y4) - (y1 - y3) * (x3 - x4)
        un == -((x1 - x2) * (y1 - y3) - (y1 - y2) * (x1 - x3))
        Inside(n) == IF denom > 0 THEN denom < 100 * n /\ 100 * n < 99 * denom
                                  ELSE 99 * denom < 100 * n /\ 100 * n < denom
    IN  IF denom = 0 THEN FALSE ELSE Inside(tn) /\ Inside(un)

line_crosses_others_TEST(new_line, existing_lines) ==
    \E i \in 1..Len(existing_lines) : lines_intersect_TEST(new_line, existing_lines[i])

\* _line_too_close_to_other_lines: the smallest of the four end-point to
\* segment distances is below MIN_LINE_SEPARATION for some existing line
line_too_close_to_other_lines(new_line, existing_lines) ==
    \E i \in 1..Len(existing_lines) :
        LET existing_line == existing_lines[i]
        IN  \/ point_to_segment_distance_lt(new_line[1], existing_line[1],
                                            existing_line[2], MIN_LINE_SEPARATION, 1)
            \/ point_to_segment_distance_lt(new_line[2], existing_line[1],
                                            existing_line[2], MIN_LINE_SEPARATION, 1)
            \/ point_to_segment_distance_lt(existing_line[1], new_line[1],
                                            new_line[2], MIN_LINE_SEPARATION, 1)
            \/ point_to_segment_distance_lt(existing_line[2], new_line[1],
                                            new_line[2], MIN_LINE_SEPARATION, 1)

\* _line_too_close_to_dots: some dot is nearer than MIN_LINE_DOT_DISTANCE
line_too_close_to_dots(line, ds) ==
    \E i \in 1..Len(ds) :
        point_to_segment_distance_lt(ds[i], line[1], line[2], MIN_LINE_DOT_DISTANCE, 1)

\* _generate_dots of the TEST version: the two randint ranges and the
\* distance test
dot_x_range_TEST ==
    randint((-PATTERN_WIDTH_TEST) \div 2 + MIN_DOT_BOUNDARY_DISTANCE_TEST,
            PATTERN_WIDTH_TEST \div 2 - MIN_DOT_BOUNDARY_DISTANCE_TEST, DotXs)
dot_y_range_TEST ==
    randint((-PATTERN_HEIGHT_TEST) \div 2 + MIN_DOT_BOUNDARY_DISTANCE_TEST,
            PATTERN_HEIGHT_TEST \div 2 - MIN_DOT_BOUNDARY_DISTANCE_TEST, DotYs)
dot_valid_TEST(x, y, ds) ==
    \A i \in 1..Len(ds) :
        ~(Dist2(<<x, y>>, ds[i]) < MIN_DOT_DISTANCE_TEST * MIN_DOT_DISTANCE_TEST)

\* _generate_dots of the TEST version: one pass of the while loop
TestDrawDot ==
    /\ pc = "dots"
    /\ Len(dots) < self.num_dots
    /\ may_draw(attempts)
    /\ \E x \in dot_x_range_TEST, y \in dot_y_range_TEST :
          IF dot_valid_TEST(x, y, dots)
          THEN dots' = Append(dots, <<x, y>>) /\ attempts' = 0
          ELSE dots' = dots /\ attempts' = attempts + 1
    /\ draws' = draws + 1
    /\ UNCHANGED <<idleVars, expVars, famVars, fam, base_dots, member, pc, lines, connVars, freeVars>>

\* _generate_lines of the TEST version, connectedness 0
TestGenerateLinesFree ==
    /\ pc = "lines"
    /\ self.connectedness = 0
    /\ lines' = <<>>
    /\ CallFreeLines(NUM_LINES)
    /\ UNCHANGED <<idleVars, expVars, famVars, fam, base_dots, member, dotVars, connVars>>

\* _generate_lines of the TEST version, connectedness 2:
\* _generate_connecting_lines starts with the shuffled dot indices
TestGenerateLinesConnecting ==
    /\ pc = "lines"
    /\ self.connectedness # 0
    /\ lines' = <<>>
    /\ \E p \in Permutations0(Len(self.dots)) : available_dots' = p
    /\ clines' = <<>>
    /\ connected_pairs' = <<>>
    /\ conn_k' = 0
    /\ cattempt' = 0
    /\ pc' = "connecting"
    /\ UNCHANGED <<idleVars, expVars, famVars, fam, base_dots, member, dotVars, freeVars>>

\* the four tests a pair passes to be connected in the TEST version
pair_ok_TEST(idx1, idx2, ds, ls) ==
    LET new_line == <<ds[idx1 + 1], ds[idx2 + 1]>>
    IN  /\ pair_length_ok(Dist2(ds[idx1 + 1], ds[idx2 + 1]))
        /\ ~line_crosses_others_TEST(new_line, ls)
        /\ ~line_too_close_to_other_lines(new_line, ls)
        /\ ~line_too_close_to_other_dots(new_line, idx1, idx2, ds)

scan_partner_TEST(avail, ds, ls) ==
    LET hits == {j \in 2..Len(avail) : pair_ok_TEST(avail[1], avail[j], ds, ls)}
    IN  IF hits = {} THEN 0 ELSE CHOOSE j \in hits : \A k \in hits : j <= k

\* "for _ in range(num_connections): if len(available_dots) < 2: raise
\* RuntimeError": the only raise of the line generation
TestConnRaise ==
    /\ pc = "connecting"
    /\ conn_k < self.connectedness
    /\ cattempt = 0
    /\ Len(available_dots) < 2
    /\ pc' = "except"
    /\ ConnLocalsDead
    /\ UNCHANGED <<idleVars, expVars, famVars, fam, base_dots, member, dotVars, lines, freeVars>>

\* one pass of "for attempt in range(max_attempts)"
TestConnAttempt ==
    /\ pc = "connecting"
    /\ conn_k < self.connectedness
    /\ Len(available_dots) >= 2
    /\ cattempt < ConnMaxAttempts
    /\ LET j == scan_partner_TEST(available_dots, self.dots, clines)
           idx1 == available_dots[1]
       IN  IF j # 0
           THEN /\ clines' = Append(clines, <<self.dots[idx1 + 1],
                                              self.dots[available_dots[j] + 1]>>)
                /\ connected_pairs' = Append(connected_pairs, <<idx1, available_dots[j]>>)
                /\ available_dots' = available_after_found(available_dots, idx1,
                                                           available_dots[j])
                /\ conn_k' = conn_k + 1
                /\ cattempt' = 0
           ELSE /\ available_dots' = available_after_rotate(available_dots, connected_pairs)
                /\ cattempt' = cattempt + 1
                /\ UNCHANGED <<clines, connected_pairs, conn_k>>
    /\ UNCHANGED <<idleVars, expVars, famVars, fam, base_dots, member, pc, dotVars, lines, freeVars>>

\* _generate_connecting_lines returns, either with all connections made or
\* after "if not found: break"; _generate_lines stores the pairs and calls
\* _generate_free_lines(NUM_LINES - self.connectedness)
TestConnReturn ==
    /\ pc = "connecting"
    /\ \/ conn_k = self.connectedness
       \/ cattempt = ConnMaxAttempts
    /\ fam' = [fam EXCEPT ![member].connected_pairs = connected_pairs]
    /\ lines' = lines \o clines
    /\ ConnLocalsDead
    /\ CallFreeLines(NUM_LINES - self.connectedness)
    /\ UNCHANGED <<idleVars, expVars, famVars, base_dots, member, dotVars>>

free_x_range_TEST ==
    randint((-PATTERN_WIDTH_TEST) \div 2 + 10, PATTERN_WIDTH_TEST \div 2 - 10, TestFreeXs)
free_y_range_TEST ==
    randint((-PATTERN_HEIGHT_TEST) \div 2 + 10, PATTERN_HEIGHT_TEST \div 2 - 10, TestFreeYs)

\* the four tests of a free-line candidate in the TEST version: end point in
\* the pattern, no crossing with and MIN_LINE_SEPARATION from the lines of
\* this call, MIN_LINE_DOT_DISTANCE from every dot
free_line_ok_TEST(new_line, ls, ds) ==
    /\ ~(\/ Abs(new_line[2][1]) > PATTERN_WIDTH_TEST \div 2
         \/ Abs(new_line[2][2]) > PATTERN_HEIGHT_TEST \div 2)
    /\ ~line_crosses_others_TEST(new_line, ls)
    /\ ~line_too_close_to_other_lines(new_line, ls)
    /\ ~line_too_close_to_dots(new_line, ds)

\* one pass of "for attempt in range(max_attempts)"; after the last failed
\* pass the for loop over the lines goes on with the next line
TestFreeAttempt ==
    /\ pc = "free"
    /\ slot < num_lines
    /\ \E x1 \in free_x_range_TEST, y1 \in free_y_range_TEST, angle \in Angles,
          length \in randint(MIN_LINE_LENGTH, MAX_LINE_LENGTH, TestLengths) :
          LET new_line == free_line(x1, y1, angle, length)
          IN  IF free_line_ok_TEST(new_line, flines, self.dots)
              THEN flines' = Append(flines, new_line) /\ slot' = slot + 1 /\ fattempt' = 0
              ELSE IF fattempt + 1 >= FreeMaxAttempts
              THEN flines' = flines /\ slot' = slot + 1 /\ fattempt' = 0
              ELSE flines' = flines /\ slot' = slot /\ fattempt' = fattempt + 1
    /\ UNCHANGED <<idleVars, expVars, famVars, fam, base_dots, member, pc, dotVars, lines, connVars, num_lines>>

\* _generate_free_lines returns, _generate_lines returns, self.lines = lines
\* and generate returns
TestFreeReturn ==
    /\ pc = "free"
    /\ slot = num_lines
    /\ fam' = [fam EXCEPT ![member].lines = lines \o flines]
    /\ lines' = <<>>
    /\ pc' = "returned"
    /\ FreeLocalsDead
    /\ UNCHANGED <<idleVars, expVars, famVars, base_dots, member, dotVars, connVars>>

\* One call of DotPattern.generate() of the TEST version on a pattern of up
\* to MaxDots dots and connectedness 0 or 2, constructed without dots or
\* with the dots of GivenDots.
InitTestPattern ==
    /\ TEST_DOT_NUMBERS = <<>>
    /\ test_patterns_by_connectivity = [c \in 0..2 |-> <<>>]
    /\ pattern_id = 0
    /\ cond = 1
    /\ rep = 0
    /\ retry = 0
    /\ \E n \in 0..MaxDots, c \in Range(CONNECTEDNESS_LEVELS_TEST),
          bd \in {<<>>} \cup GivenDots :
          /\ bd # <<>> => Len(bd) = n
          /\ fam = [NoFamily EXCEPT ![0] = DotPattern(n, c, 0, bd)]
    /\ base_dots = <<>>
    /\ member = 0
    /\ pc = "generate"
    /\ dots = <<>>
    /\ attempts = 0
    /\ lines = <<>>
    /\ clines = <<>>
    /\ connected_pairs = <<>>
    /\ available_dots = <<>>
    /\ conn_k = 0
    /\ cattempt = 0
    /\ flines = <<>>
    /\ num_lines = 0
    /\ slot = 0
    /\ fattempt = 0
    /\ draws = 0
    /\ test_patterns = <<>>
    /\ ExperimentIdle
    /\ OthersIdle
    /\ ReplayIdle

NextTest ==
    \/ GenerateNewDots
    \/ GenerateGivenDots
    \/ TestDrawDot
    \/ DotsRaise
    \/ DotsReturn
    \/ TestGenerateLinesFree
    \/ TestGenerateLinesConnecting
    \/ TestConnRaise
    \/ TestConnAttempt
    \/ TestConnReturn
    \/ TestFreeAttempt
    \/ TestFreeReturn

SpecTest == InitTestPattern /\ [][NextTest]_vars

\* C21: in the TEST version every pattern whose generate() has returned,
\* and so every pattern the family loop stores, has exactly NUM_LINES
\* lines: a line that cannot be placed makes generate() raise.
C21_TestFourLinesOrRaise ==
    \A p \in Generated : Len(p.lines) = NUM_LINES

\* ------------------------------------------------------------------------
\* DotPattern._lines_intersect as a function of its two arguments
\* ------------------------------------------------------------------------
\* sampled integer coordinates of the end points: a 3 x 3 grid, and a far
\* column that gives crossings at t = 1/200 and t = 199/200
SegXs == {0, 1, 2, 200}
SegYs == {0, 1, 2}
SegPoints == SegXs \X SegYs

\* the segments of the sample running from the lexicographically smaller
\* end point to the larger one, and the points (zero-length segments)
OrientedSegments ==
    {seg \in SegPoints \X SegPoints :
        \/ seg[1][1] < seg[2][1]
        \/ (seg[1][1] = seg[2][1] /\ seg[1][2] <= seg[2][2])}

reverse(line) == <<line[2], line[1]>>

InitIntersect ==
    /\ GenerationIdle
    /\ ExperimentIdle
    /\ StepIdle
    /\ IdilIdle
    /\ LogIdle
    /\ ReplayIdle
    /\ arg_line1 \in OrientedSegments
    /\ arg_line2 \in OrientedSegments
    /\ crosses = <<>>
    /\ crosses_TEST = <<>>

\* self._lines_intersect(line1, line2), main version
CallLinesIntersect ==
    /\ crosses = <<>>
    /\ crosses' = <<lines_intersect(arg_line1, arg_line2)>>
    /\ UNCHANGED <<genVars, expVars, replayVars, stepVars, idilVars, data,
                   arg_line1, arg_line2, crosses_TEST>>

\* self._lines_intersect(line1, line2), TEST version
CallLinesIntersectTest ==
    /\ crosses_TEST = <<>>
    /\ crosses_TEST' = <<lines_intersect_TEST(arg_line1, arg_line2)>>
    /\ UNCHANGED <<genVars, expVars, replayVars, stepVars, idilVars, data,
                   arg_line1, arg_line2, crosses>>

\* both versions called again on the segments l1, l2
CallAgain(l1, l2) ==
    /\ crosses # <<>>
    /\ crosses_TEST # <<>>
    /\ arg_line1' = l1
    /\ arg_line2' = l2
    /\ crosses' = <<lines_intersect(l1, l2)>>
    /\ crosses_TEST' = <<lines_intersect_TEST(l1, l2)>>
    /\ UNCHANGED <<genVars, expVars, replayVars, stepVars, idilVars, data>>

\* the calls repeated with the arguments exchanged, with the first segment
\* reversed, with the second segment reversed
SwapLines == CallAgain(arg_line2, arg_line1)
ReverseLine1 == CallAgain(reverse(arg_line1), arg_line2)
ReverseLine2 == CallAgain(arg_line1, reverse(arg_line2))

NextIntersect ==
    \/ CallLinesIntersect
    \/ CallLinesIntersectTest
    \/ SwapLines
    \/ ReverseLine1
    \/ ReverseLine2

SpecIntersect == InitIntersect /\ [][NextIntersect]_vars

\* twice the signed area of the triangle p, q, r
orient(p, q, r) ==
    (q[1] - p[1]) * (r[2] - p[2]) - (q[2] - p[2]) * (r[1] - p[1])

sign(n) == IF n > 0 THEN 1 ELSE IF n < 0 THEN -1 ELSE 0

\* the point p lies on the segment seg, end points included
on_segment(p, seg) ==
    /\ orient(seg[1], seg[2], p) = 0
    /\ (p[1] - seg[1][1]) * (p[1] - seg[2][1]) <= 0
    /\ (p[2] - seg[1][2]) * (p[2] - seg[2][2]) <= 0

\* the direction vectors are parallel (a zero-length segment counts)
parallel(a, b) ==
    (a[2][1] - a[1][1]) * (b[2][2] - b[1][2]) =
        (a[2][2] - a[1][2]) * (b[2][1] - b[1][1])

\* not parallel, and the only common point is an end point of a or of b
touch_at_end_point(a, b) ==
    /\ ~parallel(a, b)
    /\ \/ on_segment(a[1], b)
       \/ on_segment(a[2], b)
       \/ on_segment(b[1], a)
       \/ on_segment(b[2], a)

\* not parallel, and the common point is strictly inside both: the end
\* points of each segment lie strictly on opposite sides of the other
cross_inside(a, b) ==
    /\ sign(orient(b[1], b[2], a[1])) * sign(orient(b[1], b[2], a[2])) < 0
    /\ sign(orient(a[1], a[2], b[1])) * sign(orient(a[1], a[2], b[2])) < 0

\* C23: _lines_intersect gives the same answer when its arguments are
\* exchanged and when either segment is reversed.
C23_IntersectSymmetric ==
    [][(crosses # <<>> /\ crosses' # <<>>) => crosses' = crosses]_vars

\* a crossing has been reported for a first segment that runs from its
\* larger end point to its smaller one, which only a reversal produces
C23_Witness ==
    /\ crosses = <<TRUE>>
    /\ arg_line1 \notin OrientedSegments
    /\ arg_line2 \in OrientedSegments

\* C24: _lines_intersect returns False for segments that only touch at an
\* end point of one of them, False for parallel and collinear segments, and
\* True for segments that are not parallel and meet strictly inside both.
C24_IntersectCases ==
    crosses # <<>> =>
        /\ touch_at_end_point(arg_line1, arg_line2) => crosses = <<FALSE>>
        /\ parallel(arg_line1, arg_line2) => crosses = <<FALSE>>
        /\ cross_inside(arg_line1, arg_line2) => crosses = <<TRUE>>

\* the call has answered for a T-junction: (1,0) is an end point of the
\* second segment and lies inside the first
C24_Witness ==
    /\ crosses = <<FALSE>>
    /\ arg_line1 = <<<<0, 0>>, <<2, 0>>>>
    /\ arg_line2 = <<<<1, 0>>, <<1, 2>>>>

\* C29: every pair the TEST version reports as crossing is reported as
\* crossing by the main version.
C29_TestCrossingImpliesMain ==
    (crosses # <<>> /\ crosses_TEST # <<>>) =>
        (crosses_TEST = <<TRUE>> => crosses = <<TRUE>>)

\* both versions have reported a crossing
C29_Witness ==
    /\ crosses_TEST = <<TRUE>>
    /\ crosses = <<TRUE>>

\* ------------------------------------------------------------------------
\* step2_line_generation.py: generate_free_lines(num_lines, dots,
\* existing_lines=[]). A list is an object with an identity: heap[id] is
\* what the list holds. Object 1 is the list made once for the default
\* value of existing_lines, object 2 a list of the caller, object 3 the
\* list that "list(existing_lines)" makes.
\* ------------------------------------------------------------------------
PATTERN_WIDTH_STEP == 240
PATTERN_HEIGHT_STEP == 320

MaxStepLines == 2
StepMaxAttempts == 2

DefaultList == 1
CallerList == 2
NewList == 3

\* sampled values of the random draws and of the arguments
StepXs == {0, 40}
StepYs == {0}
StepAngles == {[c |-> 1000, s |-> 0], [c |-> 0, s |-> 1000], [c |-> 707, s |-> 707]}
StepLengths == {30, 60}
StepDots == {<<>>, <<<<0, 15>>>>}
StepExisting == {<<>>, <<<<<<-20, 20>>, <<20, 20>>>>>>}

\* copied as it would be if lines were another name of existing_lines
copied_alias(id) == id

\* "lines = list(existing_lines)": the identity of the list named lines
copied(id) == NewList

InitStep ==
    /\ GenerationIdle
    /\ ExperimentIdle
    /\ KernelIdle
    /\ IdilIdle
    /\ LogIdle
    /\ ReplayIdle
    /\ \E caller \in StepExisting :
          heap = [id \in {DefaultList, CallerList, NewList} |->
                     IF id = CallerList THEN caller ELSE <<>>]
    /\ step_pc = "idle"
    /\ existing_id = 0
    /\ lines_id = 0
    /\ step_dots = <<>>
    /\ step_num_lines = 0
    /\ line_num = 0
    /\ attempt = 0

\* a call generate_free_lines(num_lines, dots) or generate_free_lines(
\* num_lines, dots, existing_lines), up to "lines = list(existing_lines)"
StepCall ==
    /\ step_pc \in {"idle", "returned"}
    /\ \E n \in 1..MaxStepLines, ds \in StepDots, id \in {DefaultList, CallerList} :
          /\ step_num_lines' = n
          /\ step_dots' = ds
          /\ existing_id' = id
          /\ lines_id' = copied(id)
          /\ heap' = [heap EXCEPT ![copied(id)] = heap[id]]
    /\ line_num' = 0
    /\ attempt' = 0
    /\ step_pc' = "free"
    /\ UNCHANGED <<genVars, expVars, replayVars, kernelVars, idilVars, data>>

step_x_range ==
    randint((-PATTERN_WIDTH_STEP) \div 2 + 10, PATTERN_WIDTH_STEP \div 2 - 10, StepXs)
step_y_range ==
    randint((-PATTERN_HEIGHT_STEP) \div 2 + 10, PATTERN_HEIGHT_STEP \div 2 - 10, StepYs)

\* the three tests of a candidate: end point in the pattern, no crossing
\* with a line of lines, MIN_LINE_DOT_DISTANCE from every dot
step_line_ok(new_line, ls, ds) ==
    /\ ~(\/ Abs(new_line[2][1]) > PATTERN_WIDTH_STEP \div 2
         \/ Abs(new_line[2][2]) > PATTERN_HEIGHT_STEP \div 2)
    /\ ~line_crosses_others(new_line, ls)
    /\ \A i \in 1..Len(ds) :
          ~point_to_segment_distance_lt(ds[i], new_line[1], new_line[2],
                                        MIN_LINE_DOT_DISTANCE, 1)

\* one pass of "for attempt in range(max_attempts)"; after the last failed
\* pass the warning is printed and the loop goes on with the next line
StepAttempt ==
    /\ step_pc = "free"
    /\ line_num < step_num_lines
    /\ \E x1 \in step_x_range, y1 \in step_y_range, angle \in StepAngles,
          length \in randint(MIN_LINE_LENGTH, MAX_LINE_LENGTH, StepLengths) :
          LET new_line == free_line(x1, y1, angle, length)
          IN  IF step_line_ok(new_line, heap[lines_id], step_dots)
              THEN /\ heap' = [heap EXCEPT ![lines_id] = Append(@, new_line)]
                   /\ line_num' = line_num + 1
                   /\ attempt' = 0
              ELSE IF attempt + 1 >= StepMaxAttempts
              THEN heap' = heap /\ line_num' = line_num + 1 /\ attempt' = 0
              ELSE heap' = heap /\ line_num' = line_num /\ attempt' = attempt + 1
    /\ UNCHANGED <<genVars, expVars, replayVars, kernelVars, idilVars, data,
                   step_pc, existing_id, lines_id, step_dots, step_num_lines>>

\* "return lines"
StepReturn ==
    /\ step_pc = "free"
    /\ line_num = step_num_lines
    /\ step_pc' = "returned"
    /\ UNCHANGED <<genVars, expVars, replayVars, kernelVars, idilVars, data,
                   heap, existing_id, lines_id, step_dots, step_num_lines,
                   line_num, attempt>>

NextStep ==
    \/ StepCall
    \/ StepAttempt
    \/ StepReturn

SpecStep == InitStep /\ [][NextStep]_vars

\* C25: in generate_free_lines a line appended by the call crosses no line
\* that is before it in lines (the lines of existing_lines and the lines
\* appended earlier), lines starts with the lines of existing_lines, and
\* neither the caller's list nor the list of the default value is ever
\* changed.
C25_FreeLinesAccumulate ==
    /\ [](step_pc # "idle" =>
            /\ Len(heap[existing_id]) <= Len(heap[lines_id])
            /\ SubSeq(heap[lines_id], 1, Len(heap[existing_id])) = heap[existing_id]
            /\ \A j \in (Len(heap[existing_id]) + 1)..Len(heap[lines_id]) :
                  \A i \in 1..(j - 1) :
                      ~lines_intersect(heap[lines_id][j], heap[lines_id][i]))
    /\ [][/\ heap'[DefaultList] = heap[DefaultList]
          /\ heap'[CallerList] = heap[CallerList]]_vars

\* a call that received the caller's one line has returned two more
C25_Witness ==
    /\ step_pc = "returned"
    /\ existing_id = CallerList
    /\ Len(heap[CallerList]) = 1
    /\ Len(heap[lines_id]) = 3

\* C27: every line appended by generate_free_lines is MIN_LINE_LENGTH to
\* MAX_LINE_LENGTH long, from its start point to its truncated end point.
C27_FreeLineLength ==
    step_pc # "idle" =>
        \A j \in (Len(heap[existing_id]) + 1)..Len(heap[lines_id]) :
            LET d2 == Dist2(heap[lines_id][j][1], heap[lines_id][j][2])
            IN  /\ MIN_LINE_LENGTH * MIN_LINE_LENGTH <= d2
                /\ d2 <= MAX_LINE_LENGTH * MAX_LINE_LENGTH

\* ------------------------------------------------------------------------
\* numerosity_project/updated_code_idil.py: create_trial_list
\* ------------------------------------------------------------------------
\* the code has 3 levels x 7 dot numbers x 8 patterns and number_of_trials =
\* 168; here 2 x 1 x 2 patterns and 4 trials
CodeNumberOfTrials == 168
IdilLevels == <<0, 1>>
IdilDotNumbers == <<9>>
IdilPatternsPerCondition == 2
number_of_trials == 4

\* generate_all_patterns: the test pattern at position idx of test_patterns,
\* made by the loops over connectedness, num_dots and rep
idil_test_pattern(idx) ==
    [num_dots |-> IdilDotNumbers[((idx \div IdilPatternsPerCondition)
                                     % Len(IdilDotNumbers)) + 1],
     connectedness |-> IdilLevels[(idx \div (IdilPatternsPerCondition
                                                * Len(IdilDotNumbers))) + 1],
     pattern_id |-> idx]

\* the trial dictionary of updated_code_idil.py
IdilTrial(b, h, ref_pattern, test_pattern, test_on_left) ==
    [block |-> b, half |-> h, reference_pattern |-> ref_pattern,
     test_pattern |-> test_pattern, test_on_left |-> test_on_left,
     num_dots |-> test_pattern.num_dots, connectedness |-> test_pattern.connectedness]

\* the orders random.shuffle can give to [True] * (n // 2) + [False] * (n // 2)
LeftRightShuffles ==
    {lr \in [1..(2 * (number_of_trials \div 2)) -> BOOLEAN] :
        Cardinality({i \in DOMAIN lr : lr[i]}) = number_of_trials \div 2}

InitIdil ==
    /\ GenerationIdle
    /\ ExperimentIdle
    /\ KernelIdle
    /\ StepIdle
    /\ LogIdle
    /\ ReplayIdle
    /\ IdilIdle

\* "order = list(range(number_of_trials)); random.shuffle(order)" and
\* "left_right = ...; random.shuffle(left_right)"
IdilShuffle ==
    /\ order = <<>>
    /\ \E p \in Permutations0(number_of_trials) : order' = p
    /\ \E lr \in LeftRightShuffles : left_right' = lr
    /\ idil_trials' = <<>>
    /\ UNCHANGED <<genVars, expVars, replayVars, kernelVars, stepVars, data>>

\* "for i, idx in enumerate(order)": the first half
IdilFirstHalf ==
    /\ order # <<>>
    /\ idil_trials = <<>>
    /\ idil_trials' =
          [i \in 1..Len(order) |->
              IdilTrial(1, 1, <<"reference", order[i]>>, idil_test_pattern(order[i]),
                        left_right[i])]
    /\ UNCHANGED <<genVars, expVars, replayVars, kernelVars, stepVars, data,
                   order, left_right>>

\* "for first_trial in trials[:number_of_trials]": the second half, and the
\* return
IdilSecondHalf ==
    /\ Len(idil_trials) = number_of_trials
    /\ idil_trials' =
          idil_trials \o
          [i \in 1..number_of_trials |->
              [idil_trials[i] EXCEPT !.half = 2,
                                     !.test_on_left = ~idil_trials[i].test_on_left]]
    /\ UNCHANGED <<genVars, expVars, replayVars, kernelVars, stepVars, data,
                   order, left_right>>

NextIdil ==
    \/ IdilShuffle
    \/ IdilFirstHalf
    \/ IdilSecondHalf

SpecIdil == InitIdil /\ [][NextIdil]_vars

\* the first-half trials of the condition (n, c)
IdilFirstHalfOf(n, c) ==
    {i \in 1..Len(idil_trials) :
        /\ idil_trials[i].half = 1
        /\ idil_trials[i].num_dots = n
        /\ idil_trials[i].connectedness = c}

\* C26: in the first half of a block every condition (num_dots,
\* connectedness) has its test pattern on the left in exactly half of its
\* trials.
C26_BalancedPerCondition ==
    Len(idil_trials) >= number_of_trials =>
        \A n \in Range(IdilDotNumbers), c \in Range(IdilLevels) :
            2 * Cardinality({i \in IdilFirstHalfOf(n, c) : idil_trials[i].test_on_left})
                = Cardinality(IdilFirstHalfOf(n, c))

\* ------------------------------------------------------------------------
\* DetailedDataLogger.log_trial
\* ------------------------------------------------------------------------
NUM_REFERENCE_DOTS == 12
MaxLogged == 2

ResponseKeys == {"K_LEFT", "K_RIGHT"}

\* a Python value True, False or None as it is written to the JSON file
py(value) == IF value = TRUE THEN "True" ELSE "False"

\* "chose_test if test_pattern.num_dots != ref_pattern.num_dots else None"
response_correct(chose_test, test_num_dots, ref_num_dots) ==
    IF test_num_dots # ref_num_dots THEN py(chose_test) ELSE "None"

\* the dictionary log_trial appends (the test pattern's dots and lines and
\* the response time are left out)
trial_data(trial_number, ref_num_dots, test_num_dots, test_on_left, response_key) ==
    LET chose_left == (response_key = "K_LEFT")
        chose_test == (chose_left = test_on_left)
    IN  [trial_number |-> trial_number,
         reference |-> [num_dots |-> ref_num_dots,
                        position |-> IF ~test_on_left THEN "left" ELSE "right"],
         test |-> [num_dots |-> test_num_dots,
                   position |-> IF test_on_left THEN "left" ELSE "right"],
         response |-> [key_pressed |-> IF chose_left THEN "left" ELSE "right",
                       chose_test |-> chose_test,
                       chose_left |-> chose_left,
                       correct |-> response_correct(chose_test, test_num_dots,
                                                    ref_num_dots)]]

InitLog ==
    /\ GenerationIdle
    /\ ExperimentIdle
    /\ KernelIdle
    /\ StepIdle
    /\ IdilIdle
    /\ ReplayIdle
    /\ data = <<>>

\* run_trial has shown a reference pattern and a test pattern, the
\* participant has pressed a key, and log_trial records the trial
LogTrial ==
    /\ Len(data) < MaxLogged
    /\ \E test_num_dots \in Range(CodeTestDotNumbers), test_on_left \in BOOLEAN,
          response_key \in ResponseKeys :
          data' = Append(data, trial_data(Len(data) + 1, NUM_REFERENCE_DOTS,
                                          test_num_dots, test_on_left, response_key))
    /\ UNCHANGED <<genVars, expVars, replayVars, kernelVars, stepVars, idilVars>>

NextLog == LogTrial

SpecLog == InitLog /\ [][NextLog]_vars

\* the number of dots of the pattern shown on a side
DotsOnSide(d, side) ==
    IF d.test.position = side THEN d.test.num_dots ELSE d.reference.num_dots

OtherSide(side) == IF side = "left" THEN "right" ELSE "left"

\* C30: every logged trial has the test and the reference pattern on
\* opposite sides, and response.correct is True when the key pressed points
\* to the side with more dots, False when it points to the side with fewer
\* dots, and None when both sides have the same number of dots.
C30_CorrectMeansMoreDots ==
    \A i \in 1..Len(data) :
        LET d == data[i]
            pressed == DotsOnSide(d, d.response.key_pressed)
            other == DotsOnSide(d, OtherSide(d.response.key_pressed))
        IN  /\ d.test.position # d.reference.position
            /\ d.response.correct = "True" <=> pressed > other
            /\ d.response.correct = "False" <=> pressed < other
            /\ d.response.correct = "None" <=> pressed = other

\* the dot indices of ds that are in no pair
Unconnected(pairs, ds) ==
    {i \in 0..(Len(ds) - 1) :
        \A k \in 1..Len(pairs) : pairs[k][1] # i /\ pairs[k][2] # i}

\* C28: in a pattern with no more dots than the attempts of one search,
\* _generate_connecting_lines returns fewer pairs than requested only when
\* no two dots that are in no pair pass the length, crossing and clearance
\* tests against the connecting lines made.
C28_ConnectingSearchExhaustive ==
    [][(/\ pc = "connecting"
        /\ pc' # "connecting"
        /\ Len(self.dots) <= ConnMaxAttempts
        /\ Len(connected_pairs) < self.connectedness)
       => \A i, j \in Unconnected(connected_pairs, self.dots) :
              i # j => ~pair_ok(i, j, self.dots, clines)]_vars

\* the search has returned one pair of the two requested in a pattern of
\* three dots
C28_Witness ==
    /\ pc = "free"
    /\ Len(self.dots) = 3
    /\ self.connectedness = 2
    /\ Len(self.connected_pairs) = 1

\* ------------------------------------------------------------------------
\* Two runs of DotPattern.generate() on one stream of random results
\* ------------------------------------------------------------------------
\* dot numbers of the patterns constructed without dots
ReplayDotNumbers == {0, 1, 2}

\* generate() has returned or raised
Terminated == pc \in {"returned", "except"}

\* second_pattern as it would be if the second run were made on the object
\* of the first
second_pattern_reused(p, first_args) == p

\* the second run is made on a pattern constructed with the arguments of
\* the first: DotPattern(num_dots, connectedness, pattern_id, base_dots)
second_pattern(p, first_args) ==
    DotPattern(first_args.num_dots, first_args.connectedness,
               first_args.pattern_id, first_args.dots)

InitReplay ==
    /\ TEST_DOT_NUMBERS = <<>>
    /\ test_patterns_by_connectivity = [c \in 0..2 |-> <<>>]
    /\ pattern_id = 0
    /\ cond = 1
    /\ rep = 0
    /\ retry = 0
    /\ \E c \in Range(CONNECTEDNESS_LEVELS) :
          \/ \E n \in ReplayDotNumbers :
                fam = [NoFamily EXCEPT ![0] = DotPattern(n, c, 0, <<>>)]
          \/ \E bd \in GivenDots :
                fam = [NoFamily EXCEPT ![0] = DotPattern(Len(bd), c, 0, bd)]
    /\ base_dots = <<>>
    /\ member = 0
    /\ pc = "generate"
    /\ dots = <<>>
    /\ attempts = 0
    /\ lines = <<>>
    /\ clines = <<>>
    /\ connected_pairs = <<>>
    /\ available_dots = <<>>
    /\ conn_k = 0
    /\ cattempt = 0
    /\ flines = <<>>
    /\ num_lines = 0
    /\ slot = 0
    /\ fattempt = 0
    /\ draws = 0
    /\ test_patterns = <<>>
    /\ ExperimentIdle
    /\ OthersIdle
    /\ replay = 1
    /\ stream = <<>>
    /\ spos = 0
    /\ initial = fam[0]
    /\ first_run = <<>>

\* the first run has ended: its outcome is kept and generate() is called
\* again, the stream of random results being read from its start
SecondRun ==
    /\ replay = 1
    /\ Terminated
    /\ first_run' = <<pc, self>>
    /\ fam' = [fam EXCEPT ![member] = second_pattern(self, initial)]
    /\ replay' = 2
    /\ spos' = 0
    /\ pc' = "generate"
    /\ UNCHANGED <<otherVars, expVars, famVars, base_dots, member, dotVars, lines,
                   connVars, freeVars, stream, initial>>

NextReplay ==
    \/ NextPattern
    \/ SecondRun

SpecReplay == InitReplay /\ [][NextReplay]_vars

====
